---- MODULE Spec2Model ----
(***************************************************************************)
(* The large-diff commit-message pipeline of ai-cli:                       *)
(*   commands/commit.rs  handle_commit                                     *)
(*   ai_client.rs        summarize_diff_segments, summarize_segment,       *)
(*                       parse_file_summaries, ask                         *)
(*                                                                         *)
(* Text is a sequence of characters.  An ASCII character is the one-letter *)
(* string; a character outside ASCII is written "U+XXXX" (its code point). *)
(***************************************************************************)
EXTENDS Integers, Sequences, FiniteSets, TLC

(***************************************************************************)
(* Bounds of the model.                                                    *)
(***************************************************************************)
MaxLen == 4          \* longest enumerated response text (characters)
MaxSegments == 3     \* most segments handed to summarize_diff_segments
MaxWait == 2         \* ticks the model counts for a unit queued for a permit
MaxFiles == 2        \* longest enumerated expected-file list

(***************************************************************************)
(* Text primitives (Rust str methods used by parse_file_summaries).        *)
(***************************************************************************)

\* char::is_whitespace, restricted to the characters the model uses.
IsWhitespace(c) == c \in {" ", "\t", "\n", "\r"}

RECURSIVE TrimStart(_)
TrimStart(s) ==
    IF s # <<>> /\ IsWhitespace(Head(s)) THEN TrimStart(Tail(s)) ELSE s

RECURSIVE TrimEnd(_)
TrimEnd(s) ==
    IF s # <<>> /\ IsWhitespace(s[Len(s)])
    THEN TrimEnd(SubSeq(s, 1, Len(s) - 1))
    ELSE s

\* str::trim
Trim(s) == TrimEnd(TrimStart(s))

\* str::starts_with
StartsWith(s, p) == Len(p) <= Len(s) /\ SubSeq(s, 1, Len(p)) = p

\* str::contains with the bug "the empty pattern is contained in nothing".
ContainsNonEmpty(hay, needle) ==
    /\ needle # <<>>
    /\ \E i \in 1..(Len(hay) - Len(needle) + 1) :
          SubSeq(hay, i, i + Len(needle) - 1) = needle

\* str::contains with a string pattern (the empty pattern is contained
\* in every string).
Contains(hay, needle) ==
    \E i \in 1..(Len(hay) - Len(needle) + 1) :
        SubSeq(hay, i, i + Len(needle) - 1) = needle

\* A line terminated by "\n" loses one "\r" that stands right before it.
StripCR(s) ==
    IF s # <<>> /\ s[Len(s)] = "\r" THEN SubSeq(s, 1, Len(s) - 1) ELSE s

\* str::lines: split at "\n" (or "\r\n"); a last piece that is empty is
\* not a line.
RECURSIVE LinesFrom(_, _)
LinesFrom(s, cur) ==
    IF s = <<>>
    THEN IF cur = <<>> THEN <<>> ELSE <<cur>>
    ELSE IF Head(s) = "\n"
         THEN <<StripCR(cur)>> \o LinesFrom(Tail(s), <<>>)
         ELSE LinesFrom(Tail(s), Append(cur, Head(s)))

Lines(s) == LinesFrom(s, <<>>)

\* Position of the first occurrence of character c in s, 0 when absent.
FirstIndex(s, c) ==
    IF \E i \in 1..Len(s) : s[i] = c
    THEN CHOOSE i \in 1..Len(s) : s[i] = c /\ \A j \in 1..(i - 1) : s[j] # c
    ELSE 0

\* str::split_once(':'):  <<TRUE, before, after>> or <<FALSE, <<>>, <<>>>>.
SplitOnce(s, c) ==
    LET i == FirstIndex(s, c) IN
    IF i = 0
    THEN <<FALSE, <<>>, <<>>>>
    ELSE <<TRUE, SubSeq(s, 1, i - 1), SubSeq(s, i + 1, Len(s))>>

(***************************************************************************)
(* parse_file_summaries (ai_client.rs 220-251).                            *)
(***************************************************************************)

\* The header markers of the instruction template and the placeholder
\* summary of the fallback.
FormatMarker ==
    <<"U+00CB", "U+00E6", "U+00EC", "U+00C2", "U+00E1", "U+222B",
      "U+00CA", "U+2020", "U+00BA", "U+00C2", "U+00BA", "U+00E8">>
ExampleMarker ==
    <<"U+00C1", "U+00A7", "U+222B", "U+2030", "U+00E6", "U+00E3">>
FallbackSummary ==
    <<"U+00CA", "U+00F1", "U+00E1", "U+2030", "U+00AA", "U+2202",
      "U+00C2", "U+2211", "U+2264", "U+2030", "U+00F8", "U+00C6",
      "U+00CA", "U+00EE", "U+03C0">>

FileSummary(filename, summary) == [filename |-> filename, summary |-> summary]

\* Line 225: the lines the loop skips with `continue`.
SkippedLine(line) ==
    \/ line = <<>>
    \/ StartsWith(line, FormatMarker)
    \/ StartsWith(line, ExampleMarker)

\* The test of line 234 with the bug "any name passes when files are
\* expected".
MatchesExpectedAny(filename, expected_files) == expected_files # <<>>

\* Line 234: "Verify this file was actually in the segment".
MatchesExpected(filename, expected_files) ==
    \E k \in 1..Len(expected_files) :
        \/ Contains(expected_files[k], filename)
        \/ Contains(filename, expected_files[k])

\* Lines 224-237: what one response line adds to `summaries`.
ParseLine(raw, expected_files) ==
    LET line == Trim(raw)
        parts == SplitOnce(line, ":")
        filename == Trim(parts[2])
        summary == Trim(parts[3])
    IN  IF SkippedLine(line) THEN <<>>
        ELSE IF parts[1] /\ MatchesExpected(filename, expected_files)
             THEN <<FileSummary(filename, summary)>>
             ELSE <<>>

RECURSIVE ParseLines(_, _)
ParseLines(ls, expected_files) ==
    IF ls = <<>> THEN <<>>
    ELSE ParseLine(Head(ls), expected_files) \o ParseLines(Tail(ls), expected_files)

\* Fallback with the bug "only the first expected file gets a placeholder".
FallbackFirstOnly(summaries, expected_files) ==
    IF summaries = <<>> /\ expected_files # <<>>
    THEN <<FileSummary(expected_files[1], FallbackSummary)>>
    ELSE summaries

\* Lines 240-248: the fallback summaries.
Fallback(summaries, expected_files) ==
    IF summaries = <<>> /\ expected_files # <<>>
    THEN [k \in 1..Len(expected_files) |->
             FileSummary(expected_files[k], FallbackSummary)]
    ELSE summaries

\* The value inside the Ok(...) the function always returns.
ParseFileSummaries(content, expected_files) ==
    Fallback(ParseLines(Lines(content), expected_files), expected_files)


(***************************************************************************)
(* Results and error messages.  A Result<T> is a record with all three     *)
(* fields; an error message (anyhow!) is the sequence of the fragments     *)
(* format! concatenates.                                                   *)
(***************************************************************************)
Ok(v) == [ok |-> TRUE, value |-> v, error |-> <<>>]
Err(e) == [ok |-> FALSE, value |-> <<>>, error |-> e]
NoResult == [ok |-> FALSE, value |-> <<>>, error |-> <<"(not returned)">>]

\* Line 165: anyhow!("Request timeout after {}s", timeout_duration.as_secs())
TimeoutError(secs) == <<"Request timeout after ", ToString(secs), "s">>

\* Lines 203 and 207: the provider error, prefixed by the client's name.
UpstreamError(client_type, e) ==
    IF client_type = "Ollama"
    THEN <<"Ollama API error: ", e>>
    ELSE <<"OpenAI API error: ", e>>

\* Line 213.
NoContentError == <<"No response content from AI">>

(***************************************************************************)
(* The inputs the model draws.                                             *)
(***************************************************************************)
ClientTypes == {"Ollama", "OpenAi"}
ConcurrencyChoices == {0, 1, 2}      \* git_config.max_concurrency
TimeoutChoices == {1, 2}             \* git_config.segment_timeout_seconds

FileA == <<"a">>
FileB == <<"b">>
FileAB == <<"a", "b">>

SegmentPool ==
    { [content |-> <<"A">>, files |-> <<FileA>>],
      [content |-> <<"B">>, files |-> <<FileB, FileAB>>] }

RECURSIVE SeqsUpTo(_, _)
SeqsUpTo(S, n) ==
    IF n = 0 THEN {<<>>}
    ELSE LET shorter == SeqsUpTo(S, n - 1) IN
         shorter \cup {Append(q, x) : q \in {t \in shorter : Len(t) = n - 1}, x \in S}

SegmentLists == SeqsUpTo(SegmentPool, MaxSegments)

\* What the completion gateway may answer to one request.
ProviderErrors == {"connection reset by peer", "model 'm' not found"}
ContentReplies ==
    { <<"?">>,
      <<"b", ":", "y", "\n", "a", ":", "x">> }
GatewayReplies ==
    {[kind |-> "content", text |-> t, err |-> ""] : t \in ContentReplies}
    \cup {[kind |-> "error", text |-> <<>>, err |-> e] : e \in ProviderErrors}
    \cup {[kind |-> "empty", text |-> <<>>, err |-> ""]}
NoReply == [kind |-> "none", text |-> <<>>, err |-> ""]

(***************************************************************************)
(* State.                                                                  *)
(***************************************************************************)
VARIABLES
    client,                  \* AiClient.client: which AiClientType
    max_concurrency,         \* git_config.max_concurrency
    segment_timeout_seconds, \* git_config.segment_timeout_seconds
    spc,                     \* summarize_diff_segments: "idle", "running", "returned"
    segments,                \* its argument
    tasks,                   \* per unit: "pending", "acquiring", "running", "ok", "failed"
    awaiting,                \* the task the loop of line 174 is awaiting (1-based)
    permits,                 \* free permits of the Semaphore
    permit,                  \* the units whose _permit is alive
    elapsed,                 \* per unit: ticks since its timeout() started (kept
                             \*   when the unit fails, 0 again when it succeeds)
    waited,                  \* per unit: ticks spent queued for a permit
    gateway,                 \* per unit's request: "none", "pending", "answered",
                             \*   "abandoned" (caller gone), "late" (answered after that)
    requests,                \* per unit: completion requests issued
    reply,                   \* per unit: the response its future received
    all_summaries,           \* line 173
    sresult,                 \* what summarize_diff_segments returned
    pc,                      \* handle_commit: "entry", "summarize", "compose",
                             \*   "small", "done"; "direct" when the summarizer
                             \*   is called on its own
    diff_len,                \* diff.len()
    max_diff_length,         \* get_max_diff_length_for_provider(..)
    ask_gateway,             \* the request of ask(): "none", "pending", "answered"
    asks,                    \* completion requests issued by ask()
    ask_reply,               \* the gateway's answer to ask(), NoAskReply before
    commits,                 \* the messages GitOperations::commit was called with
    result,                  \* what handle_commit returned
    content,                 \* parse_file_summaries: its argument content
    expected_files,          \*   its argument expected_files
    parse_pc,                \*   "call" before it ran, "returned" after
    parsed,                  \*   the Result it returned
    stats,                   \* generate_final_commit_message: its argument stats
    file_summaries,          \*   its argument file_summaries
    compose_pc,              \*   "call", "asked" (ask() is awaited), "returned"
    prompt,                  \*   the prompt handed to ask()
    composed,                \*   the Result it returned
    diff,                    \* segment_diff_by_files: its argument diff
    max_segment_length,      \*   its argument max_length
    segment_pc,              \*   "call" before it ran, "returned" after
    segmented,               \*   the segments it returned
    analyze_pc,              \* generate_diff_stats: "call" before it ran,
                             \*   "returned" after (its argument is diff)
    diff_stats               \*   the DiffStats it returned

cfgVars == <<client, max_concurrency, segment_timeout_seconds>>
sumVars == <<spc, segments, tasks, awaiting, permits, permit, elapsed, waited,
             gateway, requests, reply, all_summaries, sresult>>

commitVars == <<pc, diff_len, max_diff_length, ask_gateway, asks, ask_reply,
                commits, result>>

pureVars == <<content, expected_files, parse_pc, parsed,
              stats, file_summaries, compose_pc, prompt, composed,
              diff, max_segment_length, segment_pc, segmented,
              analyze_pc, diff_stats>>

Units == 1..Len(segments)

\* summarize_segment with the bug "a provider error is swallowed and the
\* placeholder summaries are returned".
SummarizeSegmentSwallow(client_type, segment, r) ==
    IF r.kind = "content"
    THEN Ok(ParseFileSummaries(r.text, segment.files))
    ELSE Ok(ParseFileSummaries(<<>>, segment.files))

\* The match of lines 163-166 with the bug "the message carries
\* milliseconds".
TaskOutcomeMillis(timed_out, summary_result, secs) ==
    IF timed_out THEN Err(TimeoutError(secs * 1000)) ELSE summary_result

\* Line 176 with the bug "the new summaries are put in front".
ExtendFront(all, segment_summaries) == segment_summaries \o all

(***************************************************************************)
(* summarize_segment (ai_client.rs 184-217), from the gateway's answer on. *)
(***************************************************************************)
SummarizeSegment(client_type, segment, r) ==
    IF r.kind = "error" THEN Err(UpstreamError(client_type, r.err))
    ELSE IF r.kind = "empty" THEN Err(NoContentError)
    ELSE Ok(ParseFileSummaries(r.text, segment.files))

\* Lines 163-166: the match on what timeout() returned; `timed_out` is
\* its Err(Elapsed), `summary_result` the inner future's value otherwise.
TaskOutcome(timed_out, summary_result, secs) ==
    IF timed_out THEN Err(TimeoutError(secs)) ELSE summary_result

\* Line 176: all_summaries.extend(segment_summaries)
Extend(all, segment_summaries) == all \o segment_summaries


(***************************************************************************)
(* summarize_diff_segments (ai_client.rs 137-181).                         *)
(*                                                                         *)
(* The tasks of lines 154-167 are plain futures pushed on a Vec: a future  *)
(* runs only while it is polled, and the loop of lines 174-177 polls one   *)
(* task at a time, to completion.                                          *)
(***************************************************************************)

\* The semaphore with the bug "a limit of 0 is raised to 1".
InitialPermitsClamped(limit) == IF limit = 0 THEN 1 ELSE limit

\* Line 140: Semaphore::new(max_concurrency).
InitialPermits(limit) == limit

\* Lines 138-173 for the argument segs: the semaphore, the tasks, the
\* empty all_summaries; the loop of line 174 is at the first task.
SummarizeEnter(segs) ==
    /\ segments' = segs
    /\ tasks' = [i \in 1..Len(segs) |-> "pending"]
    /\ awaiting' = 1
    /\ permits' = InitialPermits(max_concurrency)
    /\ permit' = {}
    /\ elapsed' = [i \in 1..Len(segs) |-> 0]
    /\ waited' = [i \in 1..Len(segs) |-> 0]
    /\ gateway' = [i \in 1..Len(segs) |-> "none"]
    /\ requests' = [i \in 1..Len(segs) |-> 0]
    /\ reply' = [i \in 1..Len(segs) |-> NoReply]
    /\ all_summaries' = <<>>
    /\ IF segs = <<>>
       THEN spc' = "returned" /\ sresult' = Ok(<<>>)      \* lines 179-180
       ELSE spc' = "running" /\ sresult' = NoResult

\* Polling with the bug "the tasks are spawned: every task runs whether
\* it is awaited or not".
PolledEager(i) == spc = "running"

\* Line 174-175: the task the loop is awaiting is the one that is polled.
Polled(i) == spc = "running" /\ awaiting = i

\* acquire() with the bug "it never waits".
CanAcquireAlways == TRUE

\* Line 155: sem.acquire() completes only when a permit is free.
CanAcquire == permits > 0

\* Line 155 with no free permit: the task is queued on the semaphore.
Enqueue(i) ==
    /\ Polled(i) /\ tasks[i] = "pending"
    /\ ~CanAcquire
    /\ tasks' = [tasks EXCEPT ![i] = "acquiring"]
    /\ UNCHANGED <<spc, segments, awaiting, permits, permit, elapsed, waited,
                   gateway, requests, reply, all_summaries, sresult>>
    /\ UNCHANGED <<pureVars, cfgVars, commitVars>>

\* Queued time with the bug "timeout() wraps the acquire as well": the
\* unit fails with the timeout error once it has queued for the timeout.
QueueTickTimeout(i) ==
    /\ Polled(i) /\ tasks[i] = "acquiring"
    /\ waited[i] < MaxWait
    /\ waited' = [waited EXCEPT ![i] = @ + 1]
    /\ IF waited[i] + 1 >= segment_timeout_seconds
       THEN /\ tasks' = [tasks EXCEPT ![i] = "failed"]
            /\ spc' = "returned"
            /\ sresult' = Err(TimeoutError(segment_timeout_seconds))
       ELSE UNCHANGED <<tasks, spc, sresult>>
    /\ UNCHANGED <<segments, awaiting, permits, permit, elapsed,
                   gateway, requests, reply, all_summaries>>
    /\ UNCHANGED <<pureVars, cfgVars, commitVars>>

\* Time passes for a queued task; no timeout() exists for it yet.
QueueTick(i) ==
    /\ Polled(i) /\ tasks[i] = "acquiring"
    /\ waited[i] < MaxWait
    /\ waited' = [waited EXCEPT ![i] = @ + 1]
    /\ UNCHANGED <<spc, segments, tasks, awaiting, permits, permit, elapsed,
                   gateway, requests, reply, all_summaries, sresult>>
    /\ UNCHANGED <<pureVars, cfgVars, commitVars>>

\* Lines 155-161 and 194-209: the permit is taken, timeout() is created
\* and the completion request is sent.
Acquire(i) ==
    /\ Polled(i) /\ tasks[i] \in {"pending", "acquiring"}
    /\ CanAcquire
    /\ permits' = permits - 1
    /\ permit' = permit \cup {i}
    /\ tasks' = [tasks EXCEPT ![i] = "running"]
    /\ elapsed' = [elapsed EXCEPT ![i] = 0]
    /\ gateway' = [gateway EXCEPT ![i] = "pending"]
    /\ requests' = [requests EXCEPT ![i] = @ + 1]
    /\ UNCHANGED <<spc, segments, awaiting, waited, reply, all_summaries, sresult>>
    /\ UNCHANGED <<pureVars, cfgVars, commitVars>>

\* Time passes while the request is outstanding, up to the deadline.
Tick(i) ==
    /\ Polled(i) /\ tasks[i] = "running"
    /\ elapsed[i] < segment_timeout_seconds
    /\ elapsed' = [elapsed EXCEPT ![i] = @ + 1]
    /\ UNCHANGED <<spc, segments, tasks, awaiting, permits, permit, waited,
                   gateway, requests, reply, all_summaries, sresult>>
    /\ UNCHANGED <<pureVars, cfgVars, commitVars>>

\* The permit with the bug "it is given back on the success path only".
DropPermitOnOk(i, outcome) ==
    IF outcome.ok
    THEN permits' = permits + 1 /\ permit' = permit \ {i}
    ELSE UNCHANGED <<permits, permit>>

\* Line 167: the task's block ends and _permit is dropped, whatever
\* `outcome` it ends with.
DropPermit(i, outcome) ==
    /\ permits' = permits + 1
    /\ permit' = permit \ {i}

\* The loop with the bug "a failed task ends the call with the summaries
\* gathered so far".
AwaitTaskPartial(i, outcome) ==
    IF ~outcome.ok
    THEN /\ tasks' = [tasks EXCEPT ![i] = "failed"]
         /\ spc' = "returned"
         /\ sresult' = Ok(all_summaries)
         /\ UNCHANGED <<awaiting, all_summaries>>
    ELSE /\ tasks' = [tasks EXCEPT ![i] = "ok"]
         /\ all_summaries' = Extend(all_summaries, outcome.value)
         /\ awaiting' = i + 1
         /\ IF i = Len(segments)
            THEN spc' = "returned" /\ sresult' = Ok(all_summaries')
            ELSE UNCHANGED <<spc, sresult>>

\* The loop with the bug "every task is awaited and the first error is
\* returned at the end".
AwaitTaskContinue(i, outcome) ==
    /\ tasks' = [tasks EXCEPT ![i] = IF outcome.ok THEN "ok" ELSE "failed"]
    /\ all_summaries' = IF outcome.ok THEN Extend(all_summaries, outcome.value)
                        ELSE all_summaries
    /\ awaiting' = i + 1
    /\ sresult' = IF sresult # NoResult THEN sresult
                  ELSE IF ~outcome.ok THEN Err(outcome.error)
                  ELSE IF i = Len(segments) THEN Ok(all_summaries')
                  ELSE sresult
    /\ spc' = IF i = Len(segments) THEN "returned" ELSE spc

\* The loop with the bug "a failed unit is requested once more".
AwaitTaskRetry(i, outcome) ==
    IF ~outcome.ok
    THEN IF requests[i] < 2
         THEN /\ tasks' = [tasks EXCEPT ![i] = "pending"]
              /\ UNCHANGED <<spc, sresult, awaiting, all_summaries>>
         ELSE /\ tasks' = [tasks EXCEPT ![i] = "failed"]
              /\ spc' = "returned"
              /\ sresult' = Err(outcome.error)
              /\ UNCHANGED <<awaiting, all_summaries>>
    ELSE /\ tasks' = [tasks EXCEPT ![i] = "ok"]
         /\ all_summaries' = Extend(all_summaries, outcome.value)
         /\ awaiting' = i + 1
         /\ IF i = Len(segments)
            THEN spc' = "returned" /\ sresult' = Ok(all_summaries')
            ELSE UNCHANGED <<spc, sresult>>

\* Lines 175-180: `task.await?`, extend, and the return after the last
\* task.
AwaitTask(i, outcome) ==
    IF ~outcome.ok
    THEN /\ tasks' = [tasks EXCEPT ![i] = "failed"]
         /\ spc' = "returned"
         /\ sresult' = Err(outcome.error)
         /\ UNCHANGED <<awaiting, all_summaries>>
    ELSE /\ tasks' = [tasks EXCEPT ![i] = "ok"]
         /\ all_summaries' = Extend(all_summaries, outcome.value)
         /\ awaiting' = i + 1
         /\ IF i = Len(segments)
            THEN spc' = "returned" /\ sresult' = Ok(all_summaries')
            ELSE UNCHANGED <<spc, sresult>>

\* The gateway answers before the deadline: timeout() yields the inner
\* future's value (it polls the future before the timer).
Respond(i, r) ==
    /\ Polled(i) /\ tasks[i] = "running" /\ gateway[i] = "pending"
    /\ gateway' = [gateway EXCEPT ![i] = "answered"]
    /\ reply' = [reply EXCEPT ![i] = r]
    /\ LET outcome == TaskOutcome(FALSE,
                          SummarizeSegment(client, segments[i], r),
                          segment_timeout_seconds)
       IN  /\ DropPermit(i, outcome) /\ AwaitTask(i, outcome)
           \* the timer of a unit that goes on is gone with its timeout()
           /\ elapsed' = IF outcome.ok THEN [elapsed EXCEPT ![i] = 0] ELSE elapsed
    /\ UNCHANGED <<segments, waited, requests>>
    /\ UNCHANGED <<pureVars, cfgVars, commitVars>>

\* The deadline with the bug "the completion call is awaited without
\* timeout()": it never fires.
TimeoutFireNever(i) ==
    /\ Polled(i) /\ tasks[i] = "running" /\ gateway[i] = "pending"
    /\ FALSE
    /\ UNCHANGED <<cfgVars, sumVars, commitVars, pureVars>>

\* The deadline passes with no answer: timeout() yields Err(Elapsed) and
\* drops the inner future; the request itself may still be served.
TimeoutFire(i) ==
    /\ Polled(i) /\ tasks[i] = "running" /\ gateway[i] = "pending"
    /\ elapsed[i] = segment_timeout_seconds
    /\ gateway' = [gateway EXCEPT ![i] = "abandoned"]
    /\ LET outcome == TaskOutcome(TRUE, Ok(<<>>), segment_timeout_seconds)
       IN  DropPermit(i, outcome) /\ AwaitTask(i, outcome)
    /\ UNCHANGED <<segments, elapsed, waited, requests, reply>>
    /\ UNCHANGED <<pureVars, cfgVars, commitVars>>

\* The provider answers a request whose future was dropped: nobody reads
\* the answer.
LateResponse(i, r) ==
    /\ i \in Units /\ gateway[i] = "abandoned"
    /\ gateway' = [gateway EXCEPT ![i] = "late"]
    /\ UNCHANGED <<spc, segments, tasks, awaiting, permits, permit, elapsed,
                   waited, requests, reply, all_summaries, sresult>>
    /\ UNCHANGED <<pureVars, cfgVars, commitVars>>


(***************************************************************************)
(* ask (ai_client.rs 69-94) and handle_ollama_error (347-428).             *)
(***************************************************************************)

\* char::to_lowercase for the ASCII letters; every other character of the
\* model's error texts is its own lower case.
UpperLetters ==
    <<"A", "B", "C", "D", "E", "F", "G", "H", "I", "J", "K", "L", "M",
      "N", "O", "P", "Q", "R", "S", "T", "U", "V", "W", "X", "Y", "Z">>
LowerLetters ==
    <<"a", "b", "c", "d", "e", "f", "g", "h", "i", "j", "k", "l", "m",
      "n", "o", "p", "q", "r", "s", "t", "u", "v", "w", "x", "y", "z">>

LowerChar(c) ==
    IF \E k \in 1..26 : UpperLetters[k] = c
    THEN LowerLetters[CHOOSE k \in 1..26 : UpperLetters[k] = c]
    ELSE c

\* str::to_lowercase
ToLowercase(s) == [k \in 1..Len(s) |-> LowerChar(s[k])]

\* Lines 347-428: the error ask() returns for the Ollama client's error
\* text e.  The tests are made on the lower-cased text; the last branch
\* formats the text as it came.
HandleOllamaError(e) ==
    LET error_msg == ToLowercase(e)
        has(p) == Contains(error_msg, p)
        unknown == \/ Trim(error_msg) = <<"u", "n", "k", "n", "o", "w", "n", " ", "e", "r", "r", "o", "r", ":">>
                   \/ Trim(error_msg) = <<>>
    IN
    IF has(<<"m", "o", "d", "e", "l">>)
       /\ (\/ has(<<"n", "o", "t", " ", "f", "o", "u", "n", "d">>)
           \/ has(<<"n", "o", "t", " ", "a", "v", "a", "i", "l", "a", "b", "l", "e">>)
           \/ has(<<"p", "u", "l", "l">>)
           \/ has(<<"d", "o", "e", "s", " ", "n", "o", "t", " ", "e", "x", "i", "s", "t">>)
           \/ has(<<"4", "0", "4">>))
    THEN <<"Model '", "{model}", "' is not installed. To install this model, run: ...">>
    ELSE IF \/ has(<<"c", "o", "n", "n", "e", "c", "t", "i", "o", "n">>)
            \/ has(<<"r", "e", "f", "u", "s", "e", "d">>)
            \/ has(<<"c", "o", "n", "n", "e", "c", "t">>)
            \/ has(<<"n", "o", " ", "s", "u", "c", "h", " ", "h", "o", "s", "t">>)
            \/ has(<<"n", "e", "t", "w", "o", "r", "k", " ", "i", "s", " ", "u", "n", "r", "e", "a", "c", "h", "a", "b", "l", "e">>)
            \/ has(<<"c", "o", "n", "n", "e", "c", "t", "i", "o", "n", " ", "r", "e", "s", "e", "t">>)
            \/ unknown
         THEN IF \/ has(<<"c", "o", "n", "n", "e", "c", "t", "i", "o", "n", " ", "r", "e", "f", "u", "s", "e", "d">>)
                 \/ has(<<"n", "o", " ", "s", "u", "c", "h", " ", "h", "o", "s", "t">>)
                 \/ unknown
              THEN <<"Cannot connect to Ollama server. This might be because: ...",
                     "{models_info}", "{base_url}">>
              ELSE <<"Cannot connect to Ollama server. Make sure Ollama is running: ...",
                     "{base_url}">>
         ELSE <<"Failed to get AI response: ">> \o e

\* The error texts `chat_completions` may fail with at line 80 or 84.
AskErrors ==
    { <<"c", "o", "n", "n", "e", "c", "t", "i", "o", "n", " ", "r", "e", "f", "u", "s", "e", "d">>,
      <<"c", "o", "n", "n", "e", "c", "t", "i", "o", "n", " ", "r", "e", "s", "e", "t", " ", "b", "y", " ", "p", "e", "e", "r">>,
      <<"m", "o", "d", "e", "l", " ", "'", "m", "'", " ", "n", "o", "t", " ", "f", "o", "u", "n", "d">>,
      <<"n", "o", " ", "s", "u", "c", "h", " ", "h", "o", "s", "t">>,
      <<"H", "T", "T", "P", " ", "5", "0", "0">>,
      <<" ", " ", "U", "n", "k", "n", "o", "w", "n", " ", "E", "r", "r", "o", "r", ":", " ", " ">>,
      <<>> }

\* What the gateway may answer to the request of ask(): a choice with a
\* text ("content"), a choice whose content is null ("null"), no choice
\* ("empty"), or an error.
AskReplies ==
    {[kind |-> "content", text |-> t, err |-> <<>>] : t \in {"feat: add x", "fix: y"}}
    \cup {[kind |-> "null", text |-> "", err |-> <<>>]}
    \cup {[kind |-> "empty", text |-> "", err |-> <<>>]}
    \cup {[kind |-> "error", text |-> "", err |-> e] : e \in AskErrors}

NoAskReply == [kind |-> "none", text |-> "", err |-> <<>>]

\* Lines 78-93: the value of ask() for the gateway's answer r.  Line 90:
\* the content of the first choice, the empty string when it is null.
AskResult(client_type, r) ==
    IF r.kind = "error"
    THEN IF client_type = "Ollama"
         THEN Err(HandleOllamaError(r.err))
         ELSE Err(<<"OpenAI API error: ">> \o r.err)
    ELSE IF r.kind = "empty" THEN Err(<<"No response from AI">>)
    ELSE IF r.kind = "null" THEN Ok("")
    ELSE Ok(r.text)

(***************************************************************************)
(* handle_commit (commands/commit.rs 7-94).                                *)
(***************************************************************************)

\* What lines 9-48 read from git, the configuration and the user: each
\* fallible call is the Result it returns.
EntryEnvs ==
    [is_git_repo : BOOLEAN,
     config : {Ok(<<>>), Err(<<"{config error}">>)},
     all : BOOLEAN,
     add_all : {Ok(<<>>), Err(<<"git add . failed">>), Err(<<"Failed to run git add .">>)},
     has_staged : {Ok(TRUE), Ok(FALSE), Err(<<"{has_staged_changes error}">>)},
     has_unstaged : {Ok(TRUE), Ok(FALSE), Err(<<"{has_unstaged_changes error}">>)},
     confirm : {Ok(TRUE), Ok(FALSE), Err(<<"stream did not contain valid UTF-8">>)},
     staged_diff : {Ok(<<>>), Err(<<"git diff --staged failed">>),
                    Err(<<"Failed to run git diff --staged">>),
                    Err(<<"invalid utf-8 sequence">>)}]

\* Lines 9-48: "return" with the Result returned before the diff is
\* looked at, "proceed" when line 50 is reached.  Each `?` returns the
\* error of its call as it is.
EntryOutcome(env) ==
    LET return(r) == [kind |-> "return", res |-> r]
        FromDiff == IF ~env.staged_diff.ok THEN return(Err(env.staged_diff.error))
                    ELSE [kind |-> "proceed", res |-> Ok(<<>>)]
    IN
    IF ~env.is_git_repo THEN return(Ok(<<>>))
    ELSE IF ~env.config.ok THEN return(Err(env.config.error))
    ELSE IF env.all /\ ~env.add_all.ok THEN return(Err(env.add_all.error))
    ELSE IF ~env.has_staged.ok THEN return(Err(env.has_staged.error))
    ELSE IF env.has_staged.value THEN FromDiff
    ELSE IF ~env.has_unstaged.ok THEN return(Err(env.has_unstaged.error))
    ELSE IF ~env.has_unstaged.value THEN return(Ok(<<>>))
    ELSE IF ~env.confirm.ok THEN return(Err(env.confirm.error))
    ELSE IF ~env.confirm.value THEN return(Ok(<<>>))
    ELSE IF ~env.add_all.ok THEN return(Err(env.add_all.error))
    ELSE FromDiff

DiffLenChoices == 0..3
MaxDiffChoices == {2}

\* The test of line 55 with the bug "a diff of exactly the maximum length
\* counts as large".
IsLargeDiffOrEqual(len, max) == len >= max

\* Line 55: the large-diff path is taken.
IsLargeDiff(len, max) == len > max

\* Lines 70-79: the error of the summarizer, wrapped.
AnalyzeError(e) ==
    <<"Failed to analyze diff segments: ">> \o e \o <<"\n\nSuggestions: ...">>

\* Lines 9-48 end handle_commit.
HandleCommitEarly(env) ==
    /\ pc = "entry"
    /\ EntryOutcome(env).kind = "return"
    /\ pc' = "done"
    /\ result' = EntryOutcome(env).res
    /\ UNCHANGED <<diff_len, max_diff_length, ask_gateway, asks, ask_reply, commits>>
    /\ UNCHANGED <<pureVars, cfgVars, sumVars>>

\* Lines 55-66: a large diff for which segment_diff_by_files returns
\* nothing.
HandleCommitNoSegments(env, len, max) ==
    /\ pc = "entry"
    /\ EntryOutcome(env).kind = "proceed"
    /\ IsLargeDiff(len, max)
    /\ diff_len' = len /\ max_diff_length' = max
    /\ pc' = "done"
    /\ result' = Err(<<"Failed to segment diff for processing">>)
    /\ UNCHANGED <<ask_gateway, asks, ask_reply, commits>>
    /\ UNCHANGED <<pureVars, cfgVars, sumVars>>

\* Lines 55-69: a large diff cut into segs; summarize_diff_segments is
\* called and awaited.
HandleCommitLarge(env, len, max, segs) ==
    /\ pc = "entry"
    /\ EntryOutcome(env).kind = "proceed"
    /\ IsLargeDiff(len, max)
    /\ segs # <<>>
    /\ diff_len' = len /\ max_diff_length' = max
    /\ pc' = "summarize"
    /\ SummarizeEnter(segs)
    /\ UNCHANGED <<ask_gateway, asks, ask_reply, commits, result>>
    /\ UNCHANGED <<pureVars, cfgVars>>

\* Lines 83-86: generate_commit_message sends the whole diff with ask().
HandleCommitSmall(env, len, max) ==
    /\ pc = "entry"
    /\ EntryOutcome(env).kind = "proceed"
    /\ ~IsLargeDiff(len, max)
    /\ diff_len' = len /\ max_diff_length' = max
    /\ pc' = "small"
    /\ ask_gateway' = "pending"
    /\ asks' = asks + 1
    /\ UNCHANGED <<ask_reply, commits, result>>
    /\ UNCHANGED <<pureVars, cfgVars, sumVars>>

\* Lines 69-82 with the bug "the summarizer's error is dropped and the
\* message is composed from what there is".
AfterSummariesAlwaysCompose(sr) == "compose"

\* Lines 69-82: what handle_commit does with the summarizer's result:
\* "fail" returns the wrapped error, "compose" goes on to
\* generate_final_commit_message.
AfterSummaries(sr) == IF sr.ok THEN "compose" ELSE "fail"

\* Lines 69-82 once summarize_diff_segments has returned.
HandleCommitSummarized ==
    /\ pc = "summarize" /\ spc = "returned"
    /\ IF AfterSummaries(sresult) = "compose"
       THEN /\ pc' = "compose"
            /\ ask_gateway' = "pending"
            /\ asks' = asks + 1
            /\ UNCHANGED result
       ELSE /\ pc' = "done"
            /\ result' = Err(AnalyzeError(sresult.error))
            /\ UNCHANGED <<ask_gateway, asks>>
    /\ UNCHANGED <<diff_len, max_diff_length, ask_reply, commits>>
    /\ UNCHANGED <<pureVars, cfgVars, sumVars>>

\* git_ops.rs 68-80: how the `git commit` process may end.
GitCommitOutcomes == {"ok", "failed", "not started"}

\* The argument of git commit with the bug "a fixed subject is committed".
CommitMessageFixed(ask_value) == "chore: update"

\* Lines 55, 82/86 and 90: commit_message is the value of the completion
\* call, and GitOperations::commit is handed a reference to it.
CommitMessage(ask_value) == ask_value

\* Lines 82/86-93: ask() returns; on Ok the message is printed and
\* GitOperations::commit is called with it (git_commit: "ok" when git
\* exits with success, "failed" when it does not, "not started" when the
\* process cannot be run), whatever the message is.
HandleCommitAsked(r, git_commit) ==
    /\ pc \in {"compose", "small"} /\ ask_gateway = "pending"
    /\ ask_gateway' = "answered"
    /\ pc' = "done"
    /\ LET ar == AskResult(client, r) IN
       IF ar.ok
       THEN /\ commits' = Append(commits, CommitMessage(ar.value))
            /\ result' = IF git_commit = "not started"
                         THEN Err(<<"Failed to run git commit">>)
                         ELSE IF git_commit = "ok"
                         THEN Ok(<<>>)
                         ELSE Err(<<"git commit failed: ", "{stderr}">>)
       ELSE /\ result' = Err(ar.error)
            /\ UNCHANGED commits
    /\ ask_reply' = r
    /\ UNCHANGED <<diff_len, max_diff_length, asks>>
    /\ UNCHANGED <<pureVars, cfgVars, sumVars>>

\* summarize_diff_segments called on its own with any list of segments.
DirectCall(segs) ==
    /\ pc = "direct" /\ spc = "idle"
    /\ SummarizeEnter(segs)
    /\ UNCHANGED <<pureVars, cfgVars, commitVars>>

(***************************************************************************)
(* The specification of the pipeline.                                      *)
(***************************************************************************)
vars == <<cfgVars, sumVars, commitVars, pureVars>>

SummarizerIdle ==
    /\ spc = "idle"
    /\ segments = <<>>
    /\ tasks = <<>>
    /\ awaiting = 1
    /\ permits = 0
    /\ permit = {}
    /\ elapsed = <<>>
    /\ waited = <<>>
    /\ gateway = <<>>
    /\ requests = <<>>
    /\ reply = <<>>
    /\ all_summaries = <<>>
    /\ sresult = NoResult

CommitIdle ==
    /\ diff_len = 0
    /\ max_diff_length = 0
    /\ ask_gateway = "none"
    /\ asks = 0
    /\ ask_reply = NoAskReply
    /\ commits = <<>>
    /\ result = NoResult

\* No pure function is under test.
ParseIdle ==
    /\ content = <<>>
    /\ expected_files = <<>>
    /\ parse_pc = "idle"
    /\ parsed = NoResult

ComposeIdle ==
    /\ stats = [files_changed |-> 0, lines_added |-> 0, lines_deleted |-> 0]
    /\ file_summaries = <<>>
    /\ compose_pc = "idle"
    /\ prompt = <<>>
    /\ composed = NoResult

SegmentIdle ==
    /\ diff = <<>>
    /\ max_segment_length = 0
    /\ segment_pc = "idle"
    /\ segmented = <<>>

AnalyzeIdle ==
    /\ analyze_pc = "idle"
    /\ diff_stats = [files_changed |-> 0, lines_added |-> 0, lines_deleted |-> 0]

PureIdle == ParseIdle /\ ComposeIdle /\ SegmentIdle /\ AnalyzeIdle

Init ==
    /\ client \in ClientTypes
    /\ max_concurrency \in ConcurrencyChoices
    /\ segment_timeout_seconds \in TimeoutChoices
    /\ SummarizerIdle
    /\ pc \in {"entry", "direct"}
    /\ CommitIdle
    /\ PureIdle

\* The environments with which handle_commit reaches line 50.
ProceedEnvs == {env \in EntryEnvs : EntryOutcome(env).kind = "proceed"}

Next ==
    \/ /\ pc = "entry"
       /\ \E env \in EntryEnvs : HandleCommitEarly(env)
    \/ /\ pc = "entry"
       /\ \E env \in ProceedEnvs, len \in DiffLenChoices, max \in MaxDiffChoices :
             HandleCommitNoSegments(env, len, max)
    \/ /\ pc = "entry"
       /\ \E env \in ProceedEnvs, len \in DiffLenChoices, max \in MaxDiffChoices,
             segs \in SegmentLists : HandleCommitLarge(env, len, max, segs)
    \/ /\ pc = "entry"
       /\ \E env \in ProceedEnvs, len \in DiffLenChoices, max \in MaxDiffChoices :
             HandleCommitSmall(env, len, max)
    \/ HandleCommitSummarized
    \/ /\ ask_gateway = "pending"
       /\ \E r \in AskReplies, git_commit \in GitCommitOutcomes :
             HandleCommitAsked(r, git_commit)
    \/ /\ pc = "direct" /\ spc = "idle"
       /\ \E segs \in SegmentLists : DirectCall(segs)
    \/ \E i \in Units : Enqueue(i)
    \/ \E i \in Units : QueueTick(i)
    \/ \E i \in Units : Acquire(i)
    \/ \E i \in Units : Tick(i)
    \/ \E i \in Units : /\ Polled(i) /\ tasks[i] = "running"
                        /\ \E r \in GatewayReplies : Respond(i, r)
    \/ \E i \in Units : TimeoutFire(i)
    \/ \E i \in Units : /\ gateway[i] = "abandoned"
                        /\ \E r \in GatewayReplies : LateResponse(i, r)

Spec == Init /\ [][Next]_vars

\* The runtime keeps polling the awaited task and the timer keeps running:
\* a permit that is free is taken, time passes for an outstanding request up
\* to the deadline, and the deadline fires.  Nothing is assumed of the
\* gateway: it may never answer.
Fairness ==
    /\ WF_vars(\E i \in Units : Acquire(i))
    /\ WF_vars(\E i \in Units : Tick(i))
    /\ WF_vars(\E i \in Units : TimeoutFire(i))

SpecLive == Init /\ [][Next]_vars /\ Fairness


(***************************************************************************)
(* parse_file_summaries on its own: the inputs are drawn by the initial    *)
(* state and the one action applies the function.                          *)
(***************************************************************************)
Alphabet == {"a", "b", ":", " ", "\n"}

\* Responses beyond the enumerated ones: template echoes, a line that
\* begins with other characters than a marker's (U+8F93 U+51FA U+683C
\* U+5F0F), "\r\n" line ends, tabs, repeated and reordered lines.
ExtraTexts ==
    { ExampleMarker \o <<"a", ":", "x">>,
      <<"U+8F93", "U+51FA", "U+683C", "U+5F0F", "a", ":", "x">>,
      FormatMarker \o <<"a", ":", "x">>,
      <<" ">> \o ExampleMarker \o <<"\n", "b", ":", "y">>,
      <<"x">> \o ExampleMarker \o <<"a", ":", "y">>,
      <<"a", ":", "x", "\n", "a", ":", "y">>,
      <<"b", ":", "y", "\n", "a", ":", "x">>,
      <<"\t", "a", " ", ":", " ", "x", " ", "\r", "\n", "b", ":", "y", "\r", "\n">>,
      <<"a", "b", ":", "x", ":", "y">>,
      <<"a", "b", "a", ":", "x">> }

Texts == SeqsUpTo(Alphabet, MaxLen) \cup ExtraTexts

ExpectedFileNames == {FileA, FileB, FileAB}

\* File lists without a repeated name.
FileLists ==
    {fl \in SeqsUpTo(ExpectedFileNames, MaxFiles) :
        \A i, j \in 1..Len(fl) : fl[i] = fl[j] => i = j}

\* Line 250: parse_file_summaries returns Ok(summaries).
ParseCall ==
    /\ parse_pc = "call"
    /\ parsed' = Ok(ParseFileSummaries(content, expected_files))
    /\ parse_pc' = "returned"
    /\ UNCHANGED <<content, expected_files>>
    /\ UNCHANGED <<stats, file_summaries, compose_pc, prompt, composed>>
    /\ UNCHANGED <<diff, max_segment_length, segment_pc, segmented>>
    /\ UNCHANGED <<analyze_pc, diff_stats>>
    /\ UNCHANGED <<cfgVars, sumVars, commitVars>>

InitParse ==
    /\ client = "Ollama"
    /\ max_concurrency = 1
    /\ segment_timeout_seconds = 1
    /\ SummarizerIdle
    /\ pc = "pure"
    /\ CommitIdle
    /\ content \in Texts
    /\ expected_files \in FileLists
    /\ parse_pc = "call"
    /\ parsed = NoResult
    /\ ComposeIdle
    /\ SegmentIdle
    /\ AnalyzeIdle

NextParse == ParseCall

SpecParse == InitParse /\ [][NextParse]_vars


(***************************************************************************)
(* generate_final_commit_message (ai_client.rs 254-275).                   *)
(***************************************************************************)

\* Line 260, `take(10)`, and lines 264-265: the summaries listed by name.
MaxListed == 10

\* format!("{}", n) for an unsigned integer: its decimal digits.
DigitChar(d) == <<"0", "1", "2", "3", "4", "5", "6", "7", "8", "9">>[d + 1]

RECURSIVE Decimal(_)
Decimal(n) ==
    IF n < 10 THEN <<DigitChar(n)>>
    ELSE Decimal(n \div 10) \o <<DigitChar(n % 10)>>

\* stats_text with the bug "insertions and deletions are swapped".
StatsTextSwapped(stats_arg) ==
    Decimal(stats_arg.files_changed)
        \o <<" ", "f", "i", "l", "e", "s", " ", "c", "h", "a", "n", "g", "e", "d", ",", " ">>
        \o Decimal(stats_arg.lines_deleted)
        \o <<" ", "i", "n", "s", "e", "r", "t", "i", "o", "n", "s", "(", "+", ")", ",", " ">>
        \o Decimal(stats_arg.lines_added)
        \o <<" ", "d", "e", "l", "e", "t", "i", "o", "n", "s", "(", "-", ")">>

\* Lines 255-258: stats_text.
StatsText(stats_arg) ==
    Decimal(stats_arg.files_changed)
        \o <<" ", "f", "i", "l", "e", "s", " ", "c", "h", "a", "n", "g", "e", "d", ",", " ">>
        \o Decimal(stats_arg.lines_added)
        \o <<" ", "i", "n", "s", "e", "r", "t", "i", "o", "n", "s", "(", "+", ")", ",", " ">>
        \o Decimal(stats_arg.lines_deleted)
        \o <<" ", "d", "e", "l", "e", "t", "i", "o", "n", "s", "(", "-", ")">>

\* Line 262: format!("- {}: {}\n", summary.filename, summary.summary).
DetailLine(summary) ==
    <<"-", " ">> \o summary.filename \o <<":", " ">> \o summary.summary \o <<"\n">>

\* Line 265: format!("- ... and {} more files\n", n).
MoreFilesLine(n) ==
    <<"-", " ", ".", ".", ".", " ", "a", "n", "d", " ">> \o Decimal(n)
        \o <<" ", "m", "o", "r", "e", " ", "f", "i", "l", "e", "s", "\n">>

\* Lines 261-263: the loop over file_summaries.iter().take(n).
RECURSIVE TakeDetails(_, _)
TakeDetails(summaries, n) ==
    IF n = 0 \/ summaries = <<>> THEN <<>>
    ELSE DetailLine(Head(summaries)) \o TakeDetails(Tail(summaries), n - 1)

\* file_details with the bug "the trailer is written from MaxListed
\* summaries on, not from MaxListed + 1".
FileDetailsTrailerEarly(summaries) ==
    TakeDetails(summaries, MaxListed)
        \o (IF Len(summaries) >= MaxListed
            THEN MoreFilesLine(Len(summaries) - MaxListed)
            ELSE <<>>)

\* Lines 260-267: file_details.
FileDetails(summaries) ==
    TakeDetails(summaries, MaxListed)
        \o (IF Len(summaries) > MaxListed
            THEN MoreFilesLine(Len(summaries) - MaxListed)
            ELSE <<>>)

\* Lines 269-272: the three literal parts of the format string of `prompt`.
PromptHead ==
    <<"U+00C2", "U+00FC", "U+222B", "U+2030", "U+222B", "U+00E9",
      "U+2030", "U+00AA", "U+2022", "U+2030", "U+220F", "U+00E3",
      "U+2030", "U+00F8", "U+00B0", "U+00CA", "U+00C5", "U+00D8",
      "U+00C1", "U+00EE", "U+00FC", "U+00CA", "U+00E0", "U+00EA",
      "c", "o", "m", "m", "i", "t", " ", "m", "e", "s", "s", "a",
      "g", "e", "U+00D4", "U+00BA", "U+00F6", "\n", "\n", "U+00C1",
      "U+00AA", "U+00FC", "U+00CB", "U+00C6", "U+00B0", "U+00CA",
      "U+00EB", "U+00F2", "U+00CB", "U+00B6", "U+00C5", "U+00D4",
      "U+00BA", "U+00F6", "\n">>

PromptMiddle ==
    <<"\n", "\n", "U+00CA", "U+00F1", "U+00E1", "U+2030", "U+00AA",
      "U+2202", "U+00C2", "U+00E8", "U+00F2", "U+00CA", "U+00F5",
      "U+00A5", "U+00CB", "U+00D8", "U+00B6", "U+00CA", "U+00C9",
      "U+00D6", "U+00D4", "U+00BA", "U+00F6", "\n">>

PromptTail ==
    <<"\n", "\n", "U+00C1", "U+00EE", "U+00FC", "U+00CA", "U+00E0",
      "U+00EA", "U+00C1", "U+00A8", "U+00B6", "U+00C2", "U+00EA",
      "U+00E0", "c", "o", "n", "v", "e", "n", "t", "i", "o", "n",
      "a", "l", " ", "c", "o", "m", "m", "i", "t", "s", "U+00CA",
      "U+2020", "U+00BA", "U+00C2", "U+00BA", "U+00E8", "U+00C1",
      "U+00F6", "U+00D1", "U+2030", "U+220F", "U+00C4", "U+00CB",
      "U+00B0", "U+00E5", "c", "o", "m", "m", "i", "t", " ", "m",
      "e", "s", "s", "a", "g", "e", "U+201E", "U+00C4", "U+00C7",
      "\n", "U+00CA", "U+00E8", "U+00E8", "U+00CB", "U+00F8",
      "U+221E", "U+00C2", "U+00F8", "U+00D6", "U+00C8", "U+00B0",
      "U+00AA", "U+2030", "U+00AA", "U+2022", "U+00C2", "U+221E",
      "U+00E8", "U+00C2", "U+00DC", "U+00F4", "U+00C2", "U+2260",
      "U+00F3", "U+00CA", "U+00D8", "U+00E7", "U+00C2", "U+00BA",
      "U+00C4", "U+00C2", "U+00A7", "U+00A5", "U+00D4", "U+00BA",
      "U+00E5", "U+2030", "U+220F", "U+00E7", "U+00CB", "U+2202",
      "U+00D6", "U+00CB", "U+00F8", "U+00E1", "7", "2", "U+00C2",
      "U+2260", "U+00F3", "U+00C1", "U+00A8", "U+00B6", "U+201E",
      "U+00C4", "U+00C7">>

\* Lines 269-272: prompt.
FinalPrompt(stats_arg, summaries) ==
    PromptHead \o StatsText(stats_arg) \o PromptMiddle
        \o FileDetails(summaries) \o PromptTail

\* The summaries a call may be given.
MaxSummaries == 12

StatsChoices ==
    {[files_changed |-> f, lines_added |-> a, lines_deleted |-> d]
        : f \in {0, 2, 12}, a \in {0, 10}, d \in {3}}

SummaryTexts == {<<>>, <<"x">>}

\* n summaries of the files f1, f2, .., each with the text s.
NumberedSummaries(n, s) ==
    [i \in 1..n |-> FileSummary(<<"f">> \o Decimal(i), s)]

ScenarioSummaries ==
    << FileSummary(<<"a", ".", "r", "s">>,
                   <<"a", "d", "d", "s", " ", "r", "e", "t", "r", "y", " ", "l", "o", "g", "i", "c">>),
       FileSummary(<<"b", ".", "r", "s">>,
                   <<"u", "p", "d", "a", "t", "e", "s", " ", "d", "e", "p", "s">>) >>

SummaryLists ==
    {NumberedSummaries(n, s) : n \in 0..MaxSummaries, s \in SummaryTexts}
    \cup {ScenarioSummaries,
          <<FileSummary(FileA, <<"x">>), FileSummary(FileA, <<"x">>)>>}

\* Lines 254-274: the prompt is built and handed to ask(), which issues
\* its completion request.
ComposeCall ==
    /\ compose_pc = "call"
    /\ prompt' = FinalPrompt(stats, file_summaries)
    /\ ask_gateway' = "pending"
    /\ asks' = asks + 1
    /\ compose_pc' = "asked"
    /\ UNCHANGED <<stats, file_summaries, composed>>
    /\ UNCHANGED <<content, expected_files, parse_pc, parsed>>
    /\ UNCHANGED <<diff, max_segment_length, segment_pc, segmented>>
    /\ UNCHANGED <<analyze_pc, diff_stats>>
    /\ UNCHANGED <<pc, diff_len, max_diff_length, ask_reply, commits, result>>
    /\ UNCHANGED <<cfgVars, sumVars>>

\* The return of ask() with the bug "a failed request is issued once more".
ComposeReturnRetry(r) ==
    /\ compose_pc = "asked" /\ ask_gateway = "pending"
    /\ ask_reply' = r
    /\ IF r.kind = "error" /\ asks < 2
       THEN /\ asks' = asks + 1
            /\ UNCHANGED <<ask_gateway, composed, compose_pc>>
       ELSE /\ ask_gateway' = "answered"
            /\ composed' = AskResult(client, r)
            /\ compose_pc' = "returned"
            /\ UNCHANGED asks
    /\ UNCHANGED <<stats, file_summaries, prompt>>
    /\ UNCHANGED <<content, expected_files, parse_pc, parsed>>
    /\ UNCHANGED <<diff, max_segment_length, segment_pc, segmented>>
    /\ UNCHANGED <<analyze_pc, diff_stats>>
    /\ UNCHANGED <<pc, diff_len, max_diff_length, commits, result>>
    /\ UNCHANGED <<cfgVars, sumVars>>

\* Line 274: ask() returns and its value is the value of
\* generate_final_commit_message.
ComposeReturn(r) ==
    /\ compose_pc = "asked" /\ ask_gateway = "pending"
    /\ ask_gateway' = "answered"
    /\ ask_reply' = r
    /\ composed' = AskResult(client, r)
    /\ compose_pc' = "returned"
    /\ UNCHANGED <<stats, file_summaries, prompt>>
    /\ UNCHANGED <<content, expected_files, parse_pc, parsed>>
    /\ UNCHANGED <<diff, max_segment_length, segment_pc, segmented>>
    /\ UNCHANGED <<analyze_pc, diff_stats>>
    /\ UNCHANGED <<pc, diff_len, max_diff_length, asks, commits, result>>
    /\ UNCHANGED <<cfgVars, sumVars>>

InitCompose ==
    /\ client \in ClientTypes
    /\ max_concurrency = 1
    /\ segment_timeout_seconds = 1
    /\ SummarizerIdle
    /\ pc = "pure"
    /\ CommitIdle
    /\ ParseIdle
    /\ stats \in StatsChoices
    /\ file_summaries \in SummaryLists
    /\ compose_pc = "call"
    /\ prompt = <<>>
    /\ composed = NoResult
    /\ SegmentIdle
    /\ AnalyzeIdle

NextCompose ==
    \/ ComposeCall
    \/ /\ compose_pc = "asked"
       /\ \E r \in AskReplies : ComposeReturn(r)

SpecCompose == InitCompose /\ [][NextCompose]_vars


(***************************************************************************)
(* GitOperations::segment_diff_by_files (called at commands/commit.rs 62). *)
(* Its code is not part of the sources at hand; it is modelled after       *)
(* section 4.2 of the specification.                                       *)
(***************************************************************************)

\* The file header that starts a file block: "diff --git ".
HeaderPrefix == <<"d", "i", "f", "f", " ", "-", "-", "g", "i", "t", " ">>

\* The lines of a text, each with its "\n" (the last one may have none),
\* from position `from` on.
RECURSIVE LinesKeepEnds(_, _)
LinesKeepEnds(s, from) ==
    IF from > Len(s) THEN <<>>
    ELSE LET e == IF \E i \in from..Len(s) : s[i] = "\n"
                  THEN CHOOSE i \in from..Len(s) :
                          s[i] = "\n" /\ \A j \in from..(i - 1) : s[j] # "\n"
                  ELSE Len(s)
         IN  <<SubSeq(s, from, e)>> \o LinesKeepEnds(s, e + 1)

\* Position of the first occurrence of needle in hay, 0 when absent.
IndexOf(hay, needle) ==
    LET hits == {i \in 1..(Len(hay) - Len(needle) + 1) :
                    SubSeq(hay, i, i + Len(needle) - 1) = needle}
    IN  IF hits = {} THEN 0
        ELSE CHOOSE i \in hits : \A j \in hits : i <= j

\* The file a header line "diff --git a/<file> b/<file>" names: the text
\* after " b/".
HeaderFile(line) ==
    LET l == IF line # <<>> /\ line[Len(line)] = "\n"
             THEN SubSeq(line, 1, Len(line) - 1) ELSE line
        k == IndexOf(l, <<" ", "b", "/">>)
    IN  IF k = 0 THEN SubSeq(l, Len(HeaderPrefix) + 1, Len(l))
        ELSE SubSeq(l, k + 3, Len(l))

DiffSegment(content_arg, files_arg) == [content |-> content_arg, files |-> files_arg]

\* The per-file blocks of a diff: a block starts at each header line and
\* runs up to the next one; text before the first header is a block with
\* no file.
RECURSIVE FileBlocksOf(_, _)
FileBlocksOf(lines, cur) ==
    IF lines = <<>>
    THEN IF cur.content = <<>> THEN <<>> ELSE <<cur>>
    ELSE IF StartsWith(Head(lines), HeaderPrefix)
         THEN (IF cur.content = <<>> THEN <<>> ELSE <<cur>>)
                \o FileBlocksOf(Tail(lines),
                                DiffSegment(Head(lines), <<HeaderFile(Head(lines))>>))
         ELSE FileBlocksOf(Tail(lines),
                           DiffSegment(cur.content \o Head(lines), cur.files))

FileBlocks(diff_arg) ==
    FileBlocksOf(LinesKeepEnds(diff_arg, 1), DiffSegment(<<>>, <<>>))

\* The accumulation with the bug "only the size of the growing segment is
\* compared with the bound, not the sum".
AddBlockGreedy(st, block, max_length) ==
    IF st.current.content # <<>> /\ Len(st.current.content) > max_length
    THEN [closed |-> Append(st.closed, st.current), current |-> block]
    ELSE [closed |-> st.closed,
          current |-> DiffSegment(st.current.content \o block.content,
                                  st.current.files \o block.files)]

\* The accumulation with the bug "the growing segment is closed even when
\* it is still empty".
AddBlockCloseEmpty(st, block, max_length) ==
    IF Len(st.current.content) + Len(block.content) > max_length
    THEN [closed |-> Append(st.closed, st.current), current |-> block]
    ELSE [closed |-> st.closed,
          current |-> DiffSegment(st.current.content \o block.content,
                                  st.current.files \o block.files)]

\* The accumulation with the bug "a closed segment is put in front of the
\* ones closed before".
AddBlockPrepend(st, block, max_length) ==
    IF st.current.content # <<>>
       /\ Len(st.current.content) + Len(block.content) > max_length
    THEN [closed |-> <<st.current>> \o st.closed, current |-> block]
    ELSE [closed |-> st.closed,
          current |-> DiffSegment(st.current.content \o block.content,
                                  st.current.files \o block.files)]

\* The accumulation with the bug "a block larger than the bound is left
\* out".
AddBlockDropOversized(st, block, max_length) ==
    IF Len(block.content) > max_length
    THEN st
    ELSE IF st.current.content # <<>>
            /\ Len(st.current.content) + Len(block.content) > max_length
         THEN [closed |-> Append(st.closed, st.current), current |-> block]
         ELSE [closed |-> st.closed,
               current |-> DiffSegment(st.current.content \o block.content,
                                       st.current.files \o block.files)]

\* One step of the accumulation: the block joins the growing segment while
\* the sizes add up to at most the bound; otherwise the segment is closed
\* and the block starts the next one (where it stays alone when it is
\* larger than the bound).
AddBlock(st, block, max_length) ==
    IF st.current.content # <<>>
       /\ Len(st.current.content) + Len(block.content) > max_length
    THEN [closed |-> Append(st.closed, st.current), current |-> block]
    ELSE [closed |-> st.closed,
          current |-> DiffSegment(st.current.content \o block.content,
                                  st.current.files \o block.files)]

RECURSIVE Accumulate(_, _, _)
Accumulate(blocks, st, max_length) ==
    IF blocks = <<>>
    THEN IF st.current.content = <<>> THEN st.closed
         ELSE Append(st.closed, st.current)
    ELSE Accumulate(Tail(blocks), AddBlock(st, Head(blocks), max_length), max_length)

\* segment_diff_by_files(diff, max_length).
SegmentDiffByFiles(diff_arg, max_length) ==
    Accumulate(FileBlocks(diff_arg),
               [closed |-> <<>>, current |-> DiffSegment(<<>>, <<>>)],
               max_length)

\* The blocks `git diff --staged` prints.
MaxDiffBlocks == 3

DiffFiles == {<<"a">>, <<"b">>, <<"c">>}

\* The header line of the block of file f.
HeaderLine(f) == HeaderPrefix \o <<"a", "/">> \o f \o <<" ", "b", "/">> \o f \o <<"\n">>

\* The file markers of a block: the old and the new path, /dev/null for a
\* file that did not or does no longer exist.
OldMarker(f) == <<"-", "-", "-", " ", "a", "/">> \o f \o <<"\n">>
NewMarker(f) == <<"+", "+", "+", " ", "b", "/">> \o f \o <<"\n">>
OldMarkerNull == <<"-", "-", "-", " ", "/", "d", "e", "v", "/", "n", "u", "l", "l", "\n">>
NewMarkerNull == <<"+", "+", "+", " ", "/", "d", "e", "v", "/", "n", "u", "l", "l", "\n">>

\* The extended header lines, the hunk headers and the lines of the
\* hunks.
GitLine(name) ==
    CASE name = "new file mode" -> <<"n", "e", "w", " ", "f", "i", "l", "e", " ", "m", "o", "d", "e", " ", "1", "0", "0", "6", "4", "4", "\n">>
      [] name = "deleted file mode" -> <<"d", "e", "l", "e", "t", "e", "d", " ", "f", "i", "l", "e", " ", "m", "o", "d", "e", " ", "1", "0", "0", "6", "4", "4", "\n">>
      [] name = "old mode" -> <<"o", "l", "d", " ", "m", "o", "d", "e", " ", "1", "0", "0", "6", "4", "4", "\n">>
      [] name = "new mode" -> <<"n", "e", "w", " ", "m", "o", "d", "e", " ", "1", "0", "0", "7", "5", "5", "\n">>
      [] name = "index new" -> <<"i", "n", "d", "e", "x", " ", "0", "0", "0", "0", "0", "0", "0", ".", ".", "5", "8", "7", "b", "e", "6", "b", "\n">>
      [] name = "index empty" -> <<"i", "n", "d", "e", "x", " ", "0", "0", "0", "0", "0", "0", "0", ".", ".", "e", "6", "9", "d", "e", "2", "9", "\n">>
      [] name = "index modified" -> <<"i", "n", "d", "e", "x", " ", "9", "7", "5", "f", "b", "e", "c", ".", ".", "5", "8", "7", "b", "e", "6", "b", " ", "1", "0", "0", "6", "4", "4", "\n">>
      [] name = "index deleted" -> <<"i", "n", "d", "e", "x", " ", "9", "7", "5", "f", "b", "e", "c", ".", ".", "0", "0", "0", "0", "0", "0", "0", "\n">>
      [] name = "index noeol" -> <<"i", "n", "d", "e", "x", " ", "e", "3", "1", "7", "2", "9", "6", ".", ".", "b", "1", "3", "6", "2", "b", "4", " ", "1", "0", "0", "6", "4", "4", "\n">>
      [] name = "similarity" -> <<"s", "i", "m", "i", "l", "a", "r", "i", "t", "y", " ", "i", "n", "d", "e", "x", " ", "1", "0", "0", "%", "\n">>
      [] name = "hunk new" -> <<"@", "@", " ", "-", "0", ",", "0", " ", "+", "1", " ", "@", "@", "\n">>
      [] name = "hunk modified" -> <<"@", "@", " ", "-", "1", " ", "+", "1", " ", "@", "@", "\n">>
      [] name = "hunk deleted" -> <<"@", "@", " ", "-", "1", " ", "+", "0", ",", "0", " ", "@", "@", "\n">>
      [] name = "hunk context" -> <<"@", "@", " ", "-", "1", ",", "2", " ", "+", "1", ",", "2", " ", "@", "@", "\n">>
      [] name = "context" -> <<" ", "y", "\n">>
      [] name = "added" -> <<"+", "x", "\n">>
      [] name = "removed" -> <<"-", "y", "\n">>
      [] name = "removed last" -> <<"-", "x", "\n">>
      [] name = "no newline" -> <<"\\", " ", "N", "o", " ", "n", "e", "w", "l", "i", "n", "e", " ", "a", "t", " ", "e", "n", "d", " ", "o", "f", " ", "f", "i", "l", "e", "\n">>

\* The kinds of file block, with the contents that make git print them:
\* a new file "x\n", a file changed from "y\n" to "x\n", a deleted file
\* "y\n", a new empty file, a changed file mode, a file "z\n" moved
\* unchanged to another name, and a file "y\nx" that gets its final
\* newline.  No deleted file has the content of a new one, so that git
\* pairs no two blocks into a rename.
BlockKinds == {"new", "modified", "deleted", "empty", "mode", "renamed", "noeol"}

\* The name file f is moved to by a block of kind "renamed": no name of
\* DiffFiles.
RenamedTo(f) == f \o <<"2">>

\* The header line of a block that moves file f to g.
RenameHeaderLine(f, g) ==
    HeaderPrefix \o <<"a", "/">> \o f \o <<" ", "b", "/">> \o g \o <<"\n">>

\* The block git prints for file f.
GitBlock(kind, f) ==
    CASE kind = "new" ->
            HeaderLine(f) \o GitLine("new file mode") \o GitLine("index new")
              \o OldMarkerNull \o NewMarker(f) \o GitLine("hunk new") \o GitLine("added")
      [] kind = "modified" ->
            HeaderLine(f) \o GitLine("index modified")
              \o OldMarker(f) \o NewMarker(f) \o GitLine("hunk modified")
              \o GitLine("removed") \o GitLine("added")
      [] kind = "deleted" ->
            HeaderLine(f) \o GitLine("deleted file mode") \o GitLine("index deleted")
              \o OldMarker(f) \o NewMarkerNull \o GitLine("hunk deleted")
              \o GitLine("removed")
      [] kind = "empty" ->
            HeaderLine(f) \o GitLine("new file mode") \o GitLine("index empty")
      [] kind = "mode" ->
            HeaderLine(f) \o GitLine("old mode") \o GitLine("new mode")
      [] kind = "renamed" ->
            RenameHeaderLine(f, RenamedTo(f)) \o GitLine("similarity")
              \o <<"r", "e", "n", "a", "m", "e", " ", "f", "r", "o", "m", " ">> \o f \o <<"\n">>
              \o <<"r", "e", "n", "a", "m", "e", " ", "t", "o", " ">> \o RenamedTo(f) \o <<"\n">>
      [] kind = "noeol" ->
            HeaderLine(f) \o GitLine("index noeol")
              \o OldMarker(f) \o NewMarker(f) \o GitLine("hunk context")
              \o GitLine("context") \o GitLine("removed last") \o GitLine("no newline")
              \o GitLine("added")

\* The blocks of a diff: at most MaxDiffBlocks, each of a file of its own,
\* in the order git was told to print them (diff.orderFile).
DiffBlockLists ==
    {bl \in SeqsUpTo(BlockKinds \X DiffFiles, MaxDiffBlocks) :
        \A i, j \in 1..Len(bl) : bl[i][2] = bl[j][2] => i = j}

RECURSIVE Flatten(_)
Flatten(ls) == IF ls = <<>> THEN <<>> ELSE Head(ls) \o Flatten(Tail(ls))

\* What `git diff --staged` prints: nothing, or the blocks of the changed
\* files one after the other.
Diffs ==
    {Flatten([k \in 1..Len(bl) |-> GitBlock(bl[k][1], bl[k][2])]) : bl \in DiffBlockLists}

\* Bounds below every block, between the blocks' sizes, above every block,
\* and above most pairs of blocks.
MaxLengthChoices == {1, 100, 130, 200}

\* Line 62: segment_diff_by_files returns.
SegmentCall ==
    /\ segment_pc = "call"
    /\ segmented' = SegmentDiffByFiles(diff, max_segment_length)
    /\ segment_pc' = "returned"
    /\ UNCHANGED <<diff, max_segment_length>>
    /\ UNCHANGED <<analyze_pc, diff_stats>>
    /\ UNCHANGED <<content, expected_files, parse_pc, parsed>>
    /\ UNCHANGED <<stats, file_summaries, compose_pc, prompt, composed>>
    /\ UNCHANGED <<cfgVars, sumVars, commitVars>>

InitSegment ==
    /\ client = "Ollama"
    /\ max_concurrency = 1
    /\ segment_timeout_seconds = 1
    /\ SummarizerIdle
    /\ pc = "pure"
    /\ CommitIdle
    /\ ParseIdle
    /\ ComposeIdle
    /\ diff \in Diffs
    /\ max_segment_length \in MaxLengthChoices
    /\ segment_pc = "call"
    /\ segmented = <<>>
    /\ AnalyzeIdle

NextSegment == SegmentCall

SpecSegment == InitSegment /\ [][NextSegment]_vars


(***************************************************************************)
(* GitOperations::generate_diff_stats (called at commands/commit.rs 59).   *)
(* Its code is not part of the sources at hand; it is modelled after       *)
(* section 4.1 of the specification.                                       *)
(***************************************************************************)

DiffStats(files_changed_arg, lines_added_arg, lines_deleted_arg) ==
    [files_changed |-> files_changed_arg,
     lines_added |-> lines_added_arg,
     lines_deleted |-> lines_deleted_arg]

IsHeaderLine(line) == StartsWith(line, HeaderPrefix)

\* A line beginning with `+`, the `+++` file marker excepted.
IsAddedLine(line) ==
    StartsWith(line, <<"+">>) /\ ~StartsWith(line, <<"+", "+", "+">>)

\* A line beginning with `-`, the `---` file marker excepted.
IsDeletedLine(line) ==
    StartsWith(line, <<"-">>) /\ ~StartsWith(line, <<"-", "-", "-">>)

\* The analysis with the bug "the file markers count as changed lines".
GenerateDiffStatsMarkers(diff_arg) ==
    LET lines == LinesKeepEnds(diff_arg, 1)
        IsPlus(line) == StartsWith(line, <<"+">>)
        IsMinus(line) == StartsWith(line, <<"-">>)
    IN  DiffStats(Cardinality({k \in 1..Len(lines) : IsHeaderLine(lines[k])}),
                  Cardinality({k \in 1..Len(lines) : IsPlus(lines[k])}),
                  Cardinality({k \in 1..Len(lines) : IsMinus(lines[k])}))

\* A line without the "\n" that ends it.
WithoutEnd(line) ==
    IF line # <<>> /\ line[Len(line)] = "\n"
    THEN SubSeq(line, 1, Len(line) - 1) ELSE line

\* generate_diff_stats(diff): the distinct file headers, the added and
\* the removed lines.
GenerateDiffStats(diff_arg) ==
    LET lines == LinesKeepEnds(diff_arg, 1) IN
    DiffStats(Cardinality({WithoutEnd(lines[k]) :
                              k \in {j \in 1..Len(lines) : IsHeaderLine(lines[j])}}),
              Cardinality({k \in 1..Len(lines) : IsAddedLine(lines[k])}),
              Cardinality({k \in 1..Len(lines) : IsDeletedLine(lines[k])}))

\* The lines of the texts given to the analysis.
MaxStatLines == 4

StatLines ==
    {HeaderLine(f) : f \in {<<"a">>, <<"b">>}}
    \cup {<<"-", "-", "-", " ", "a", "/", "a", "\n">>,
          <<"+", "+", "+", " ", "b", "/", "a", "\n">>,
          <<"+", "x", "\n">>, <<"-", "y", "\n">>}

\* Malformed text: bare signs, a last line without "\n", a header without
\* file names, signs inside a line, a header that comes twice, the second
\* time without "\n".
MalformedDiffs ==
    { HeaderLine(<<"a">>) \o <<"+", "x", "\n">> \o WithoutEnd(HeaderLine(<<"a">>)),
      <<"+">>, <<"+", "+">>, <<"+", "+", "+">>, <<"-", "\n", "-", "-">>,
      <<"-", "-", "-", "\n", "+", "+", "x", "\n", "\n", "-">>,
      HeaderPrefix, HeaderPrefix \o <<"\n", "x", "+", "y", "-", "\n">>,
      <<"d", "i", "f", "f", " ", "-", "-", "g", "i", "t", "a", "\n", "+">> }

\* The diffs git prints, any text of the lines above (a header may come
\* more than once), and the malformed texts.
StatDiffs ==
    Diffs
    \cup {Flatten(ls) : ls \in SeqsUpTo(StatLines, MaxStatLines)}
    \cup MalformedDiffs

\* Line 59: generate_diff_stats returns.
AnalyzeCall ==
    /\ analyze_pc = "call"
    /\ diff_stats' = GenerateDiffStats(diff)
    /\ analyze_pc' = "returned"
    /\ UNCHANGED <<diff, max_segment_length, segment_pc, segmented>>
    /\ UNCHANGED <<content, expected_files, parse_pc, parsed>>
    /\ UNCHANGED <<stats, file_summaries, compose_pc, prompt, composed>>
    /\ UNCHANGED <<cfgVars, sumVars, commitVars>>

InitAnalyze ==
    /\ client = "Ollama"
    /\ max_concurrency = 1
    /\ segment_timeout_seconds = 1
    /\ SummarizerIdle
    /\ pc = "pure"
    /\ CommitIdle
    /\ ParseIdle
    /\ ComposeIdle
    /\ diff \in StatDiffs
    /\ max_segment_length = 0
    /\ segment_pc = "idle"
    /\ segmented = <<>>
    /\ analyze_pc = "call"
    /\ diff_stats = DiffStats(0, 0, 0)

NextAnalyze == AnalyzeCall

SpecAnalyze == InitAnalyze /\ [][NextAnalyze]_vars


(***************************************************************************)
(* Properties.                                                             *)
(***************************************************************************)
Range(s) == {s[k] : k \in DOMAIN s}

\* The timeout of unit i elapsed before the gateway answered.
TimedOut(i) == gateway[i] \in {"abandoned", "late"}

\* Unit i ended in one of the failures: timeout, provider error, or a
\* response without content.
UnitFailed(i) == TimedOut(i) \/ reply[i].kind \in {"error", "empty"}

\* The error message unit i is expected to end with.
ExpectedUnitError(i) ==
    IF TimedOut(i)
    THEN <<"Request timeout after ", ToString(segment_timeout_seconds), "s">>
    ELSE IF reply[i].kind = "error"
         THEN <<IF client = "Ollama" THEN "Ollama API error: " ELSE "OpenAI API error: ",
                reply[i].err>>
         ELSE <<"No response content from AI">>

\* The summaries of units 1..n, each parsed from its own response, in
\* segment order.
RECURSIVE ConcatParsed(_)
ConcatParsed(n) ==
    IF n = 0 THEN <<>>
    ELSE ConcatParsed(n - 1) \o ParseFileSummaries(reply[n].text, segments[n].files)

\* C1: whenever summarize_diff_segments has returned and some unit failed,
\* it returned an error and no FileSummary list, not even the summaries of
\* the units that succeeded before.
C1_FailFastNoPartial ==
    (spc = "returned" /\ \E i \in Units : UnitFailed(i))
        => (~sresult.ok /\ sresult.value = <<>> /\ sresult.error # <<>>)

\* Unit 2 of 3 timed out after unit 1 had produced summaries.
C1_Witness ==
    /\ spc = "returned" /\ Len(segments) = 3
    /\ tasks[1] = "ok" /\ all_summaries # <<>>
    /\ TimedOut(2)
    /\ ~sresult.ok

\* C2: the units holding a permit and waiting on the completion call are
\* never more than the configured limit; the permits taken and the free
\* ones add up to the limit, and a queued unit sees no free permit.
C2_ConcurrencyBound ==
    spc # "idle" =>
        LET inflight == {i \in Units : tasks[i] = "running"} IN
        /\ Cardinality(inflight) <= max_concurrency
        /\ inflight \subseteq permit
        /\ permits >= 0
        /\ permits + Cardinality(permit) = max_concurrency
        /\ \A i \in Units : tasks[i] = "acquiring" => permits = 0

\* As many units in flight as the limit allows (limit >= 1), with another
\* unit still to come.
C2_Witness ==
    /\ max_concurrency >= 1
    /\ Cardinality({i \in Units : tasks[i] = "running"}) = max_concurrency
    /\ \E j \in Units : tasks[j] = "pending"

\* C3: when every unit succeeded, the returned sequence is the
\* concatenation of each segment's parsed summaries in segment order.
C3_SegmentOrder ==
    (spc = "returned" /\ sresult.ok)
        => sresult.value = ConcatParsed(Len(segments))

\* Three units succeeded, with different summaries for units 1 and 2.
C3_Witness ==
    /\ spc = "returned" /\ sresult.ok /\ Len(segments) = 3
    /\ ParseFileSummaries(reply[1].text, segments[1].files)
         # ParseFileSummaries(reply[2].text, segments[2].files)

\* C4: a request is outstanding only for a unit that holds a permit, a
\* concluded unit holds none, and once summarize_diff_segments has returned
\* no permit is held and all of them are free.
C4_PermitRelease ==
    /\ \A i \in Units : gateway[i] = "pending" => i \in permit
    /\ \A i \in Units : tasks[i] \in {"ok", "failed"} => i \notin permit
    /\ spc = "returned" => (permit = {} /\ permits = max_concurrency)

\* The call returned by a timeout, by a provider error or with a value,
\* after a permit had been taken.
C4_Witness ==
    /\ spc = "returned" /\ max_concurrency >= 1
    /\ \E i \in Units : requests[i] = 1 /\ UnitFailed(i)
    /\ permits = max_concurrency

\* C5: a unit whose deadline passed without a response fails with the
\* timeout error that carries the configured seconds, at the deadline; a
\* response of the provider after that changes nothing: it is not parsed
\* and is no part of the result.
C5_TimeoutOutcome ==
    \A i \in Units :
        TimedOut(i) =>
            /\ tasks[i] = "failed"
            /\ elapsed[i] = segment_timeout_seconds
            /\ spc = "returned"
            /\ sresult = Err(<<"Request timeout after ",
                               ToString(segment_timeout_seconds), "s">>)
            /\ reply[i] = NoReply
            /\ all_summaries = ConcatParsed(i - 1)

\* The provider answered a request after its unit had timed out.
C5_Witness ==
    \E i \in Units : gateway[i] = "late" /\ spc = "returned" /\ i > 1

\* C6: a unit whose completion call returned a provider error fails with
\* the upstream error, not with a timeout and not with placeholder
\* summaries, and the error of summarize_diff_segments, and of handle_commit
\* after it, contains the provider's error text.
C6_UpstreamFailure ==
    \A i \in Units :
        reply[i].kind = "error" =>
            /\ tasks[i] = "failed"
            /\ spc = "returned" /\ ~sresult.ok /\ sresult.value = <<>>
            /\ sresult.error[1] \in {"Ollama API error: ", "OpenAI API error: "}
            /\ sresult.error[2] = reply[i].err
            /\ "Request timeout after " \notin Range(sresult.error)
            /\ pc = "done" => (~result.ok /\ reply[i].err \in Range(result.error))

\* handle_commit ended on the provider error of the second unit.
C6_Witness ==
    /\ pc = "done"
    /\ \E i \in Units : i = 2 /\ reply[i].kind = "error" /\ elapsed[i] >= 1

\* C7: once a unit has failed the call has returned that unit's error; no
\* later segment was polled, queued or requested, and the result holds
\* nothing of them.
C7_AbortPending ==
    \A i \in Units :
        UnitFailed(i) =>
            /\ spc = "returned"
            /\ sresult = Err(ExpectedUnitError(i))
            /\ all_summaries = ConcatParsed(i - 1)
            /\ \A j \in Units :
                  j > i => (tasks[j] = "pending" /\ requests[j] = 0
                            /\ gateway[j] = "none" /\ reply[j] = NoReply)

\* The first of three units failed; two units were never started.
C7_Witness ==
    /\ Len(segments) = 3
    /\ UnitFailed(1) /\ reply[1].kind = "empty"
    /\ tasks[2] = "pending" /\ tasks[3] = "pending"

\* handle_commit is on its large-diff path.
LargePath == pc \notin {"direct", "pure"} /\ IsLargeDiff(diff_len, max_diff_length)

\* The pipeline failed: no segments, a failed unit, or a failed composition
\* call.
PipelineFailed ==
    \/ pc = "done" /\ spc = "idle"
    \/ spc = "returned" /\ ~sresult.ok
    \/ ask_reply.kind \in {"error", "empty"}

\* C8: on the large-diff path, when the pipeline failed, git commit was
\* never invoked and handle_commit, once it has returned, returned an error.
C8_NoCommitOnFailure ==
    (LargePath /\ PipelineFailed)
        => (commits = <<>> /\ (pc = "done" => ~result.ok))

\* The composition call failed after every unit had succeeded.
C8_Witness ==
    /\ LargePath /\ pc = "done"
    /\ spc = "returned" /\ sresult.ok
    /\ ask_reply.kind = "error"

\* C9: parse_file_summaries returns no error and, for a non-empty expected
\* file list, between 1 and |expected_files| summaries.
C9_ParserResultSize ==
    (parse_pc = "returned" /\ expected_files # <<>>)
        => /\ parsed.ok
           /\ Len(parsed.value) >= 1
           /\ Len(parsed.value) <= Len(expected_files)

\* A response line is accepted: not blank, no template header, a ':' in
\* it, and the text before the first ':' matches an expected file.
LineAccepted(raw, files) ==
    LET line == Trim(raw)
        colon == FirstIndex(line, ":")
    IN  /\ line # <<>>
        /\ ~StartsWith(line, FormatMarker)
        /\ ~StartsWith(line, ExampleMarker)
        /\ colon > 0
        /\ MatchesExpected(Trim(SubSeq(line, 1, colon - 1)), files)

NoLineAccepted ==
    \A k \in 1..Len(Lines(content)) : ~LineAccepted(Lines(content)[k], expected_files)

\* C10: when no line of the response is accepted, the result is one
\* placeholder summary per expected file, in expected-file order; for an
\* empty expected file list the result is empty.
C10_ParserFallback ==
    parse_pc = "returned" =>
        /\ parsed.ok
        /\ expected_files = <<>> => parsed.value = <<>>
        /\ (expected_files # <<>> /\ NoLineAccepted) =>
              /\ Len(parsed.value) = Len(expected_files)
              /\ \A k \in 1..Len(expected_files) :
                    parsed.value[k] = [filename |-> expected_files[k],
                                       summary |-> FallbackSummary]

\* Two expected files and a response with a "name: text" line that names
\* neither of them.
C10_Witness ==
    /\ parse_pc = "returned"
    /\ Len(expected_files) = 2
    /\ ":" \in Range(content)
    /\ NoLineAccepted
    /\ Len(parsed.value) = 2

\* No file is listed by two segments, or twice by one.
DisjointSegmentFiles ==
    \A i, j \in Units :
        \A k \in 1..Len(segments[i].files), l \in 1..Len(segments[j].files) :
            segments[i].files[k] = segments[j].files[l] => (i = j /\ k = l)

\* C11: the FileSummary sequence summarize_diff_segments returns for
\* segments that share no file never holds two entries with the same
\* filename.
C11_NoDuplicateFilename ==
    (spc = "returned" /\ sresult.ok /\ DisjointSegmentFiles)
        => \A j1, j2 \in 1..Len(sresult.value) :
              sresult.value[j1].filename = sresult.value[j2].filename => j1 = j2

\* The summary fs corresponds to the expected file f: one of the two names
\* contains the other.
Corresponds(fs, f) == Contains(f, fs.filename) \/ Contains(fs.filename, f)

\* C12: for a non-empty expected file list, every expected file has at
\* least one corresponding FileSummary in the result of
\* parse_file_summaries.
C12_NoFileVanishes ==
    (parse_pc = "returned" /\ expected_files # <<>>)
        => \A k \in 1..Len(expected_files) :
              \E j \in 1..Len(parsed.value) :
                  Corresponds(parsed.value[j], expected_files[k])

\* C13: the summaries of one segment follow the order of the segment's
\* file list: of two summaries that carry the names of two expected files,
\* the one of the earlier file comes first.
C13_WithinSegmentOrder ==
    parse_pc = "returned" =>
        \A j1, j2 \in 1..Len(parsed.value) :
            \A k1, k2 \in 1..Len(expected_files) :
                (/\ j1 < j2
                 /\ parsed.value[j1].filename = expected_files[k1]
                 /\ parsed.value[j2].filename = expected_files[k2])
                    => k1 <= k2

\* The pieces of s between its "\n" characters, from position `from` on;
\* as str::lines, an empty piece at the end is no line.
NextNewline(s, from) ==
    IF \E i \in from..Len(s) : s[i] = "\n"
    THEN CHOOSE i \in from..Len(s) :
            s[i] = "\n" /\ \A j \in from..(i - 1) : s[j] # "\n"
    ELSE Len(s) + 1

RECURSIVE SplitFrom(_, _)
SplitFrom(s, from) ==
    IF from > Len(s) THEN <<>>
    ELSE LET e == NextNewline(s, from) IN
         <<SubSeq(s, from, e - 1)>> \o SplitFrom(s, e + 1)

\* The lines of the prompt the composer built.
PromptLines == SplitFrom(prompt, 1)

\* The prompt has been built and handed to ask().
Composed == compose_pc \in {"asked", "returned"}

\* The bullet line expected for one summary.
BulletOf(fs) == <<"-", " ">> \o fs.filename \o <<":", " ">> \o fs.summary

Min(a, b) == IF a <= b THEN a ELSE b

\* C14: the prompt built by generate_final_commit_message holds the line
\* "N files changed, A insertions(+), D deletions(-)" of the statistics
\* (its 4th line) and, after the header of the file details (its 6th line),
\* one line "- filename: summary" for each of the first min(10, n)
\* summaries, in list order.
C14_ComposerRendering ==
    Composed =>
        /\ PromptLines[4] =
              Decimal(stats.files_changed) \o <<" ", "f", "i", "l", "e", "s", " ", "c", "h", "a", "n", "g", "e", "d", ",", " ">>
                \o Decimal(stats.lines_added) \o <<" ", "i", "n", "s", "e", "r", "t", "i", "o", "n", "s", "(", "+", ")", ",", " ">>
                \o Decimal(stats.lines_deleted) \o <<" ", "d", "e", "l", "e", "t", "i", "o", "n", "s", "(", "-", ")">>
        /\ \A i \in 1..Min(Len(file_summaries), MaxListed) :
              PromptLines[6 + i] = BulletOf(file_summaries[i])

\* The scenario of the specification: statistics {2, 10, 3} and the
\* summaries of a.rs and b.rs.
C14_Witness ==
    /\ Composed
    /\ stats = [files_changed |-> 2, lines_added |-> 10, lines_deleted |-> 3]
    /\ file_summaries = ScenarioSummaries
    /\ <<"-", " ", "a", ".", "r", "s", ":", " ", "a", "d", "d", "s", " ", "r", "e", "t", "r", "y", " ", "l", "o", "g", "i", "c">>
          \in Range(PromptLines)
    /\ <<"2", " ", "f", "i", "l", "e", "s", " ", "c", "h", "a", "n", "g", "e", "d", ",", " ", "1", "0", " ", "i", "n", "s", "e", "r", "t", "i", "o", "n", "s", "(", "+", ")", ",", " ", "3", " ", "d", "e", "l", "e", "t", "i", "o", "n", "s", "(", "-", ")">>
          \in Range(PromptLines)

\* The lines of the prompt that start with "- ", and those of them that
\* start with "- ... and ".
BulletLines == {k \in DOMAIN PromptLines : StartsWith(PromptLines[k], <<"-", " ">>)}
TrailerLines ==
    {k \in DOMAIN PromptLines : StartsWith(PromptLines[k], <<"-", " ", ".", ".", ".", " ", "a", "n", "d", " ">>)}

\* C15: the prompt holds exactly min(n, 10) bullet lines for summaries and
\* none for the 11th summary or a later one; the trailer
\* "- ... and (n - 10) more files" follows them exactly when n > 10.
C15_ComposerTruncation ==
    Composed =>
        LET n == Len(file_summaries) IN
        /\ Cardinality(BulletLines \ TrailerLines) = Min(n, MaxListed)
        /\ \A i \in (MaxListed + 1)..n :
              BulletOf(file_summaries[i]) \notin Range(PromptLines)
        /\ n <= MaxListed => TrailerLines = {}
        /\ n > MaxListed =>
              /\ TrailerLines = {6 + MaxListed + 1}
              /\ PromptLines[6 + MaxListed + 1] =
                    <<"-", " ", ".", ".", ".", " ", "a", "n", "d", " ">> \o Decimal(n - MaxListed)
                      \o <<" ", "m", "o", "r", "e", " ", "f", "i", "l", "e", "s">>

\* Twelve summaries: ten bullets and the trailer "- ... and 2 more files".
C15_Witness ==
    /\ Composed
    /\ Len(file_summaries) = 12
    /\ Cardinality(BulletLines) = 11
    /\ <<"-", " ", ".", ".", ".", " ", "a", "n", "d", " ", "2", " ", "m", "o", "r", "e", " ", "f", "i", "l", "e", "s">>
          \in Range(PromptLines)

\* C16: an invocation of generate_final_commit_message issues exactly one
\* completion request, whatever the number of summaries; it returns the
\* text of the provider's response as it is (the empty text when the
\* response's choice has no content), and an error when the call failed or
\* gave no choice (for the OpenAI client the error carries the provider's
\* error text).
C16_ComposerOneCall ==
    /\ compose_pc = "call" => asks = 0
    /\ compose_pc = "asked" => asks = 1
    /\ compose_pc = "returned" =>
          /\ asks = 1
          /\ ask_reply.kind = "content" =>
                (composed.ok /\ composed.value = ask_reply.text
                 /\ composed.error = <<>>)
          /\ ask_reply.kind = "null" =>
                (composed.ok /\ composed.value = "" /\ composed.error = <<>>)
          /\ ask_reply.kind \in {"error", "empty"} =>
                (~composed.ok /\ composed.error # <<>>)
          /\ (ask_reply.kind = "error" /\ client = "OpenAi") =>
                composed.error = <<"OpenAI API error: ">> \o ask_reply.err

\* The composer returned the provider's text for an empty list of
\* summaries.
C16_Witness ==
    /\ compose_pc = "returned"
    /\ file_summaries = <<>>
    /\ asks = 1
    /\ composed.ok /\ composed.value = "feat: add x"

\* C17: git commit is invoked at most once, only after the last completion
\* call of the run (the composition call on the large-diff path, the direct
\* call on the small-diff path) has returned a text, and with exactly that
\* text as its message (the empty text when the response's choice has no
\* content); while a call is still to come or outstanding nothing is
\* committed.
C17_CommitMessageUnmodified ==
    /\ Len(commits) <= 1
    /\ pc \in {"entry", "summarize", "compose", "small"} => commits = <<>>
    /\ commits # <<>> =>
          /\ pc = "done"
          /\ asks = 1 /\ ask_gateway = "answered"
          /\ ask_reply.kind \in {"content", "null"}
          /\ ask_reply.kind = "content" => commits = <<ask_reply.text>>
          /\ ask_reply.kind = "null" => commits = <<"">>
          /\ LargePath => (spc = "returned" /\ sresult.ok)
          /\ ~LargePath => spc = "idle"

\* A commit on the large-diff path, after two units and the composition
\* call.
C17_Witness ==
    /\ commits = <<"fix: y">>
    /\ LargePath /\ Len(segments) = 2
    /\ ask_reply.text = "fix: y"

\* C18: within one invocation of summarize_diff_segments at most one
\* completion request is issued per segment; a unit that failed was
\* requested once and is not requested again, and a unit not yet started
\* was never requested.
C18_NoRetry ==
    \A i \in Units :
        /\ requests[i] <= 1
        /\ tasks[i] \in {"pending", "acquiring"} => requests[i] = 0
        /\ tasks[i] \in {"running", "ok", "failed"} => requests[i] = 1
        /\ UnitFailed(i) => (tasks[i] = "failed" /\ gateway[i] # "pending")

\* The second of three units failed on a provider error, and the call has
\* returned with one request for each of the first two units.
C18_Witness ==
    /\ spc = "returned"
    /\ Len(segments) = 3
    /\ reply[2].kind = "error"
    /\ requests = <<1, 1, 0>>

\* The requests the provider has not answered yet: awaited ones and those
\* whose caller timed out.
Outstanding == {i \in Units : gateway[i] \in {"pending", "abandoned"}}

\* C19: the units are awaited one at a time in submission order: a unit
\* takes a permit, or issues its request, only when every unit before it
\* has concluded, and at most one completion call is outstanding at any
\* instant, whatever the concurrency limit.
C19_SequentialAwaiting ==
    spc # "idle" =>
        /\ Cardinality(Outstanding) <= 1
        /\ Cardinality(permit) <= 1
        /\ \A i \in Units :
              (tasks[i] # "pending" \/ i \in permit \/ requests[i] > 0)
                  => \A j \in 1..(i - 1) : tasks[j] = "ok"

\* With a limit of 2 a permit is free while unit 1 waits for its response,
\* and unit 2 has not started.
C19_Witness ==
    /\ max_concurrency = 2 /\ permits = 1
    /\ Len(segments) >= 2
    /\ tasks[1] = "running" /\ elapsed[1] >= 1
    /\ tasks[2] = "pending" /\ requests[2] = 0

\* The contents, and the file lists, of segments one after the other.
RECURSIVE ConcatContent(_)
ConcatContent(segs) ==
    IF segs = <<>> THEN <<>> ELSE Head(segs).content \o ConcatContent(Tail(segs))

RECURSIVE ConcatFiles(_)
ConcatFiles(segs) ==
    IF segs = <<>> THEN <<>> ELSE Head(segs).files \o ConcatFiles(Tail(segs))

\* The header lines of the diff.
HeaderPositions ==
    {i \in 1..Len(diff) :
        /\ i = 1 \/ diff[i - 1] = "\n"
        /\ i + Len(HeaderPrefix) - 1 <= Len(diff)
        /\ SubSeq(diff, i, i + Len(HeaderPrefix) - 1) = HeaderPrefix}

\* C20: the contents of the segments returned for a diff and a bound
\* M > 0, one after the other in order, are the diff itself, and the
\* segments list as many files as the diff has file headers: no file block
\* is dropped, truncated or repeated.
C20_LosslessSegmentation ==
    (segment_pc = "returned" /\ max_segment_length > 0) =>
        /\ ConcatContent(segmented) = diff
        /\ Len(ConcatFiles(segmented)) = Cardinality(HeaderPositions)

\* A diff of three file blocks with hunks, returned as several segments
\* of which one holds two files.
C20_Witness ==
    /\ segment_pc = "returned"
    /\ Cardinality(HeaderPositions) = 3
    /\ Contains(diff, <<"\n", "@", "@", " ">>)
    /\ Len(segmented) >= 2
    /\ \E k \in 1..Len(segmented) : Len(segmented[k].files) = 2

\* The file blocks of the diff, by position: block p starts at the header
\* at p and ends before the next header, or with the diff.
BlockEnd(p) ==
    LET later == {q \in HeaderPositions : q > p} IN
    IF later = {} THEN Len(diff)
    ELSE (CHOOSE q \in later : \A r \in later : q <= r) - 1

BlockSize(p) == BlockEnd(p) - p + 1

\* The file the header at position p names: the text after " b/" up to
\* the end of the line.
FileAt(p) ==
    LET e == CHOOSE i \in p..Len(diff) :
                 diff[i] = "\n" /\ \A j \in p..(i - 1) : diff[j] # "\n"
        k == CHOOSE i \in p..e :
                 SubSeq(diff, i, i + 2) = <<" ", "b", "/">>
                 /\ \A j \in p..(i - 1) : SubSeq(diff, j, j + 2) # <<" ", "b", "/">>
    IN  SubSeq(diff, k + 3, e - 1)

\* C21: when every file block of the diff fits the bound M > 0, no segment
\* is longer than M; a segment longer than M holds one file only and is
\* nothing but a file block of the diff that is itself longer than M.
C21_SegmentSizeBound ==
    (segment_pc = "returned" /\ max_segment_length > 0) =>
        /\ (\A p \in HeaderPositions : BlockSize(p) <= max_segment_length)
              => \A k \in 1..Len(segmented) :
                    Len(segmented[k].content) <= max_segment_length
        /\ \A k \in 1..Len(segmented) :
              Len(segmented[k].content) > max_segment_length =>
                  /\ Len(segmented[k].files) = 1
                  /\ \E p \in HeaderPositions :
                        /\ BlockSize(p) > max_segment_length
                        /\ segmented[k].content = SubSeq(diff, p, BlockEnd(p))
                        /\ segmented[k].files = <<FileAt(p)>>

\* A block longer than the bound sits alone in its segment, between two
\* segments that keep the bound.
C21_Witness ==
    /\ segment_pc = "returned"
    /\ Len(segmented) = 3
    /\ Len(segmented[1].content) <= max_segment_length
    /\ Len(segmented[2].content) > max_segment_length
    /\ Len(segmented[3].content) <= max_segment_length

\* C22: no filename is in the file lists of two segments or twice in one,
\* and no segment has an empty file list, or no content.
C22_DisjointNonEmpty ==
    segment_pc = "returned" =>
        /\ \A k \in 1..Len(segmented) :
              segmented[k].files # <<>> /\ segmented[k].content # <<>>
        /\ LET all == ConcatFiles(segmented) IN
           \A i, j \in 1..Len(all) : all[i] = all[j] => i = j

\* The first file block of the diff is longer than the bound, and another
\* segment follows it.
C22_Witness ==
    /\ segment_pc = "returned"
    /\ max_segment_length > 1
    /\ Len(segmented) >= 2
    /\ Len(segmented[1].content) > max_segment_length
    /\ Len(segmented[1].files) = 1

\* The files of the diff in the order of their headers.
RECURSIVE FilesFrom(_)
FilesFrom(ps) ==
    IF ps = {} THEN <<>>
    ELSE LET p == CHOOSE q \in ps : \A r \in ps : q <= r IN
         <<FileAt(p)>> \o FilesFrom(ps \ {p})

\* C23: the file lists of the returned segments, one after the other, are
\* the files of the diff in the order of their headers.
C23_SegmentFileOrder ==
    segment_pc = "returned" =>
        ConcatFiles(segmented) = FilesFrom(HeaderPositions)

\* Three files, not in alphabetical order, over two segments or more.
C23_Witness ==
    /\ segment_pc = "returned"
    /\ Len(segmented) >= 2
    /\ ConcatFiles(segmented) = << <<"c">>, <<"a">>, <<"b">> >>

\* The positions of the diff at which a line starts.
LineStarts == {i \in 1..Len(diff) : i = 1 \/ diff[i - 1] = "\n"}

\* The line at position i starts with the sign c, and not with three of
\* them.
SignedLineAt(i, c) ==
    /\ diff[i] = c
    /\ ~(i + 2 <= Len(diff) /\ diff[i + 1] = c /\ diff[i + 2] = c)

\* The header line that starts at position p, without its "\n".
HeaderTextAt(p) ==
    LET ends == {i \in p..Len(diff) : diff[i] = "\n"} IN
    IF ends = {} THEN SubSeq(diff, p, Len(diff))
    ELSE SubSeq(diff, p, (CHOOSE i \in ends : \A j \in ends : i <= j) - 1)

\* The counts of added and removed lines, and the empty text.
ChangedLinesCounted ==
    /\ diff_stats.lines_added =
          Cardinality({i \in LineStarts : SignedLineAt(i, "+")})
    /\ diff_stats.lines_deleted =
          Cardinality({i \in LineStarts : SignedLineAt(i, "-")})
    /\ diff = <<>> =>
          diff_stats = [files_changed |-> 0, lines_added |-> 0,
                        lines_deleted |-> 0]

\* C24 as it is stated: generate_diff_stats returns for every text;
\* files_changed is the number of file headers of the text, lines_added
\* the number of lines starting with '+' but not with '+++', lines_deleted
\* the number of lines starting with '-' but not with '---'; all three
\* are 0 for the empty text.
C24_HeadersCounted ==
    analyze_pc = "returned" =>
        /\ diff_stats.files_changed = Cardinality(HeaderPositions)
        /\ ChangedLinesCounted

\* C24: generate_diff_stats returns for every text; files_changed is the
\* number of distinct file headers of the text (a header that comes twice
\* counts once), lines_added the number of lines starting with '+' but not
\* with '+++', lines_deleted the number of lines starting with '-' but not
\* with '---'; all three are 0 for the empty text.
C24_DiffStatistics ==
    analyze_pc = "returned" =>
        /\ diff_stats.files_changed =
              Cardinality({HeaderTextAt(p) : p \in HeaderPositions})
        /\ ChangedLinesCounted

\* A text in which the header of one file comes twice, with an added line
\* between: one file changed.
C24_Witness ==
    /\ analyze_pc = "returned"
    /\ Cardinality(HeaderPositions) = 2
    /\ diff_stats = [files_changed |-> 1, lines_added |-> 1, lines_deleted |-> 0]

\* The lines of the response, trimmed.
ResponseLine(k) == Trim(SplitFrom(content, 1)[k])
ResponseLineNumbers == 1..Len(SplitFrom(content, 1))

\* The pieces of response line k before and after its first ':', trimmed.
NamePart(k) ==
    LET l == ResponseLine(k) IN Trim(SubSeq(l, 1, FirstIndex(l, ":") - 1))
TextPart(k) ==
    LET l == ResponseLine(k) IN Trim(SubSeq(l, FirstIndex(l, ":") + 1, Len(l)))

\* Response line k passes the acceptance rule: not blank, no template
\* header marker at its start, a ':' in it, and its name piece contained
\* in, or containing, an expected file.
PassesRule(k) ==
    LET l == ResponseLine(k) IN
    /\ l # <<>>
    /\ ~StartsWith(l, FormatMarker) /\ ~StartsWith(l, ExampleMarker)
    /\ FirstIndex(l, ":") > 0
    /\ \E f \in Range(expected_files) :
          Contains(f, NamePart(k)) \/ Contains(NamePart(k), f)

PassingLines == {k \in ResponseLineNumbers : PassesRule(k)}

\* C25: a FileSummary returned by parse_file_summaries is the trimmed name
\* and text of a response line that passes the acceptance rule, and every
\* such line is returned once; only when no line passes is the result the
\* placeholder list. A line without ':' or with a name that matches no
\* expected file is never returned.
C25_ParserAcceptance ==
    parse_pc = "returned" =>
        IF PassingLines = {}
        THEN \A j \in 1..Len(parsed.value) :
                /\ parsed.value[j].summary = FallbackSummary
                /\ parsed.value[j].filename = expected_files[j]
        ELSE /\ Len(parsed.value) = Cardinality(PassingLines)
             /\ \A j \in 1..Len(parsed.value) :
                   \E k \in PassingLines :
                       parsed.value[j] = [filename |-> NamePart(k),
                                          summary |-> TextPart(k)]

\* Of two response lines the one naming an expected file is returned,
\* trimmed, and the one naming another file is not.
C25_Witness ==
    /\ parse_pc = "returned"
    /\ expected_files = <<FileA>>
    /\ "\t" \in Range(content) /\ "b" \in Range(content)
    /\ parsed.value = <<[filename |-> <<"a">>, summary |-> <<"x">>]>>

\* The response lines whose text before the first ':' is empty after
\* trimming.
EmptyNameLines ==
    {k \in ResponseLineNumbers :
        FirstIndex(ResponseLine(k), ":") > 0 /\ NamePart(k) = <<>>}

\* C30: for a non-empty expected file list every response line with
\* nothing but white space before its first ':' yields a FileSummary with
\* an empty filename and the trimmed rest of the line as its summary, and
\* the result then holds no placeholder summary.
C30_EmptyCandidateFilename ==
    (parse_pc = "returned" /\ expected_files # <<>> /\ EmptyNameLines # {}) =>
        /\ \A k \in EmptyNameLines :
              [filename |-> <<>>, summary |-> TextPart(k)] \in Range(parsed.value)
        /\ Cardinality({j \in 1..Len(parsed.value) : parsed.value[j].filename = <<>>})
              = Cardinality(EmptyNameLines)
        /\ \A j \in 1..Len(parsed.value) :
              parsed.value[j].summary # FallbackSummary

\* The response " :a" for the expected file b: one summary with an empty
\* filename and no placeholder for b.
C30_Witness ==
    /\ parse_pc = "returned"
    /\ expected_files = <<FileB>>
    /\ content = <<" ", ":", "a">>
    /\ parsed.value = <<[filename |-> <<>>, summary |-> <<"a">>]>>

\* C26: handle_commit segments and summarizes exactly when the diff is
\* strictly longer than the maximum: the summarizer runs only for such a
\* diff, and for such a diff no completion call is made before every unit
\* has succeeded; a diff of at most the maximum length is sent whole in
\* one completion call, with no segment and no unit.
C26_PathSelection ==
    pc \in {"summarize", "compose", "small", "done"} =>
        /\ (spc # "idle" \/ pc \in {"summarize", "compose"})
              => diff_len > max_diff_length
        /\ diff_len > max_diff_length =>
              /\ pc # "small"
              /\ asks > 0 => (spc = "returned" /\ sresult.ok)
              /\ pc = "done" =>
                    \/ spc = "returned"
                    \/ result = Err(<<"Failed to segment diff for processing">>)
        /\ diff_len <= max_diff_length =>
              /\ pc \in {"small", "done"}
              /\ spc = "idle" /\ segments = <<>> /\ requests = <<>>
              /\ asks <= 1
        /\ pc = "small" => (asks = 1 /\ diff_len <= max_diff_length)

\* A diff of exactly the maximum length was committed after one call, with
\* no segment.
C26_Witness ==
    /\ pc = "done"
    /\ max_diff_length > 0 /\ diff_len = max_diff_length
    /\ spc = "idle" /\ asks = 1
    /\ commits = <<"feat: add x">>

\* C28: with a concurrency limit of 0 and at least one segment,
\* summarize_diff_segments is never in a state in which it has returned:
\* the first unit is at the acquire, or queued there, no unit was started,
\* no request was issued, and no result, so no Timeout error, exists.
C28_ZeroLimitNeverReturns ==
    (max_concurrency = 0 /\ spc # "idle" /\ segments # <<>>) =>
        /\ spc = "running" /\ awaiting = 1
        /\ sresult = NoResult
        /\ tasks[1] \in {"pending", "acquiring"}
        /\ permits = 0 /\ permit = {}
        /\ \A i \in Units :
              /\ i > 1 => tasks[i] = "pending"
              /\ requests[i] = 0 /\ gateway[i] = "none" /\ elapsed[i] = 0

\* The first of two units has queued for a permit for MaxWait ticks under
\* the limit 0.
C28_Witness ==
    /\ max_concurrency = 0
    /\ Len(segments) = 2
    /\ tasks[1] = "acquiring" /\ waited[1] = MaxWait

\* C29: the timeout of a unit runs only from the moment the unit holds its
\* permit: a unit that has not acquired has no timer, no request and no
\* failure, whatever time it has queued; a unit that failed had acquired,
\* and when the call ended on the timeout error the unit's request had
\* been outstanding for the whole timeout.
C29_TimeoutScope ==
    \A i \in Units :
        /\ tasks[i] \in {"pending", "acquiring"} =>
              (elapsed[i] = 0 /\ gateway[i] = "none" /\ requests[i] = 0)
        /\ tasks[i] = "acquiring" => (spc = "running" /\ sresult = NoResult)
        /\ tasks[i] = "failed" => requests[i] = 1
        /\ (tasks[i] = "failed" /\ sresult = Err(TimeoutError(segment_timeout_seconds))) =>
              (TimedOut(i) /\ elapsed[i] = segment_timeout_seconds)

\* A unit has queued for longer than the timeout and has not failed.
C29_Witness ==
    \E i \in Units :
        /\ tasks[i] = "acquiring"
        /\ waited[i] > segment_timeout_seconds
        /\ spc = "running"

\* C27: under a concurrency limit of at least 1, a call of
\* summarize_diff_segments that is running eventually returns, whether the
\* gateway answers or not.
C27_Termination ==
    (spc = "running" /\ max_concurrency >= 1) ~> (spc = "returned")

\* The call returned although the gateway never answered the third unit.
C27_Witness ==
    /\ max_concurrency >= 1
    /\ spc = "returned"
    /\ Len(segments) = 3
    /\ tasks[1] = "ok" /\ tasks[2] = "ok"
    /\ gateway[3] = "abandoned"

====
